---------------------------- MODULE Spec2Model ----------------------------
(***************************************************************************)
(* A model of the document-parsing subsystem of taris-agent:               *)
(*   src/src/common/document_parsers.py  (extractors, registry, facade)    *)
(*   src/src/react_agent/utils.py        (message content processor)       *)
(*                                                                         *)
(* Representation.  A Python str is a sequence of code points (integers    *)
(* >= 0); bytes are a sequence of integers 0..255; None is the one-element *)
(* sequence <<-1>>, which is no str.  A call's outcome is a record         *)
(*   [kind |-> "return" | "raise", val, exc, msg, parsed]                  *)
(* where val is the value returned, exc/msg the exception class and its    *)
(* str(), and parsed the registry positions whose parse was invoked.       *)
(***************************************************************************)
EXTENDS Integers, Sequences, FiniteSets, TLC

(***************************************************************************)
(* Bounds of the model.                                                    *)
(***************************************************************************)
\* register_parser calls in one behaviour
MaxRegistered == 2
\* parts in one list-valued message content
MaxParts == 2
\* messages in one process_messages call
MaxMessages == 2

(***************************************************************************)
(* Python values.                                                          *)
(***************************************************************************)
None == <<-1>>

IsStr(v) == v # None

\* f"{v}" for a str or None
Format(v) == IF v = None THEN <<78, 111, 110, 101>> ELSE v

Return(v) == [kind |-> "return", val |-> v, exc |-> "", msg |-> <<>>, parsed |-> <<>>]

Raise(e, m) == [kind |-> "raise", val |-> <<>>, exc |-> e, msg |-> m, parsed |-> <<>>]

\* the "'NoneType' object has no attribute '<name>'" of an attribute
\* access on None; name is the attribute's name as code points
NoAttribute(name) ==
    Raise("AttributeError",
          <<39, 78, 111, 110, 101, 84, 121, 112, 101, 39, 32, 111, 98, 106,
            101, 99, 116, 32, 104, 97, 115, 32, 110, 111, 32, 97, 116, 116,
            114, 105, 98, 117, 116, 101, 32, 39>> \o name \o <<39>>)

(***************************************************************************)
(* str methods used by the source.                                         *)
(***************************************************************************)
\* str.lower() on the ASCII letters (the only cased code points the model's
\* inputs hold)
LowerChar(c) == IF c >= 65 /\ c <= 90 THEN c + 32 ELSE c

lower(s) == [i \in 1..Len(s) |-> LowerChar(s[i])]

endswith(s, suffix) ==
    /\ Len(s) >= Len(suffix)
    /\ SubSeq(s, Len(s) - Len(suffix) + 1, Len(s)) = suffix

startswith(s, prefix) ==
    /\ Len(s) >= Len(prefix)
    /\ SubSeq(s, 1, Len(prefix)) = prefix

\* the code points str.strip() removes (str.isspace) that can occur here:
\* \t \n \v \f \r, FS GS RS US, space, NEL, NBSP, ideographic space
Whitespace == {9, 10, 11, 12, 13, 28, 29, 30, 31, 32, 133, 160, 12288}

RECURSIVE lstrip(_)
lstrip(s) ==
    IF s # <<>> /\ Head(s) \in Whitespace THEN lstrip(Tail(s)) ELSE s

RECURSIVE rstrip(_)
rstrip(s) ==
    IF s # <<>> /\ s[Len(s)] \in Whitespace
    THEN rstrip(SubSeq(s, 1, Len(s) - 1))
    ELSE s

strip(s) == rstrip(lstrip(s))

\* "%d" % n, n >= 0
RECURSIVE Decimal(_)
Decimal(n) ==
    IF n < 10 THEN <<48 + n>> ELSE Decimal(n \div 10) \o <<48 + (n % 10)>>

\* "".join(parts), from item i on: TypeError "sequence item <i>: expected
\* str instance, NoneType found" when an item is not a str
RECURSIVE joinFrom(_, _)
joinFrom(parts, i) ==
    IF i > Len(parts) THEN Return(<<>>)
    ELSE IF ~IsStr(parts[i])
    THEN Raise("TypeError",
               <<115, 101, 113, 117, 101, 110, 99, 101, 32, 105, 116, 101,
                 109, 32>> \o Decimal(i - 1) \o
               <<58, 32, 101, 120, 112, 101, 99, 116, 101, 100, 32, 115, 116,
                 114, 32, 105, 110, 115, 116, 97, 110, 99, 101, 44, 32, 78,
                 111, 110, 101, 84, 121, 112, 101, 32, 102, 111, 117, 110,
                 100>>)
    ELSE LET rest == joinFrom(parts, i + 1)
         IN  IF rest.kind = "raise" THEN rest
             ELSE Return(parts[i] \o rest.val)

join(parts) == joinFrom(parts, 1)

(***************************************************************************)
(* base64.b64decode(s) with its defaults (altchars=None, validate=False):  *)
(* a str is encoded as ASCII, anything that is neither str nor bytes-like  *)
(* is a TypeError, then binascii.a2b_base64 discards the characters        *)
(* outside the alphabet and decodes quads until the padding ends one.      *)
(***************************************************************************)
\* table_a2b_base64: the 6-bit value of an alphabet character, 64 otherwise
B64Value(c) ==
    IF c >= 65 /\ c <= 90 THEN c - 65
    ELSE IF c >= 97 /\ c <= 122 THEN c - 97 + 26
    ELSE IF c >= 48 /\ c <= 57 THEN c - 48 + 52
    ELSE IF c = 43 THEN 62
    ELSE IF c = 47 THEN 63
    ELSE 64

BASE64_PAD == 61

RECURSIVE a2b_base64(_, _, _, _, _, _)
a2b_base64(s, i, quad_pos, leftchar, pads, out) ==
    IF i > Len(s)
    THEN IF quad_pos = 0 THEN Return(out)
         ELSE IF quad_pos = 1
         THEN Raise("binascii.Error",
                    <<73, 110, 118, 97, 108, 105, 100, 32, 98, 97, 115, 101, 54,
                      52, 45, 101, 110, 99, 111, 100, 101, 100, 32, 115, 116,
                      114, 105, 110, 103, 58, 32, 110, 117, 109, 98, 101, 114,
                      32, 111, 102, 32, 100, 97, 116, 97, 32, 99, 104, 97, 114,
                      97, 99, 116, 101, 114, 115, 32, 40>>
                    \o Decimal((Len(out) \div 3) * 4 + 1)
                    \o <<41, 32, 99, 97, 110, 110, 111, 116, 32, 98, 101, 32, 49,
                         32, 109, 111, 114, 101, 32, 116, 104, 97, 110, 32, 97,
                         32, 109, 117, 108, 116, 105, 112, 108, 101, 32, 111,
                         102, 32, 52>>)
         ELSE Raise("binascii.Error",
                    <<73, 110, 99, 111, 114, 114, 101, 99, 116, 32, 112, 97,
                      100, 100, 105, 110, 103>>)
    ELSE LET c == s[i]
             v == B64Value(c)
         IN  IF c = BASE64_PAD
             THEN IF quad_pos >= 2 /\ quad_pos + pads + 1 >= 4
                  THEN Return(out)
                  ELSE a2b_base64(s, i + 1, quad_pos, leftchar,
                                  IF quad_pos >= 2 THEN pads + 1 ELSE pads, out)
             ELSE IF v >= 64
             THEN a2b_base64(s, i + 1, quad_pos, leftchar, pads, out)
             ELSE CASE quad_pos = 0 ->
                         a2b_base64(s, i + 1, 1, v, 0, out)
                    [] quad_pos = 1 ->
                         a2b_base64(s, i + 1, 2, v % 16, 0,
                                    Append(out, leftchar * 4 + v \div 16))
                    [] quad_pos = 2 ->
                         a2b_base64(s, i + 1, 3, v % 4, 0,
                                    Append(out, leftchar * 16 + v \div 4))
                    [] OTHER ->
                         a2b_base64(s, i + 1, 0, 0, 0,
                                    Append(out, leftchar * 64 + v))

b64decode(s) ==
    IF ~IsStr(s)
    THEN Raise("TypeError",
               <<97, 114, 103, 117, 109, 101, 110, 116, 32, 115, 104, 111, 117,
                 108, 100, 32, 98, 101, 32, 97, 32, 98, 121, 116, 101, 115, 45,
                 108, 105, 107, 101, 32, 111, 98, 106, 101, 99, 116, 32, 111,
                 114, 32, 65, 83, 67, 73, 73, 32, 115, 116, 114, 105, 110, 103,
                 44, 32, 110, 111, 116, 32, 39, 78, 111, 110, 101, 84, 121, 112,
                 101, 39>>)
    ELSE IF \E i \in 1..Len(s) : s[i] > 127
    THEN Raise("ValueError",
               <<115, 116, 114, 105, 110, 103, 32, 97, 114, 103, 117, 109, 101,
                 110, 116, 32, 115, 104, 111, 117, 108, 100, 32, 99, 111, 110,
                 116, 97, 105, 110, 32, 111, 110, 108, 121, 32, 65, 83, 67, 73,
                 73, 32, 99, 104, 97, 114, 97, 99, 116, 101, 114, 115>>)
    ELSE a2b_base64(s, 1, 0, 0, 0, <<>>)

(***************************************************************************)
(* bytes.decode(encoding) for the three encodings TextParser tries.        *)
(***************************************************************************)
IsCont(b) == b >= 128 /\ b <= 191

\* bytes.decode("utf-8"), strict: no overlong forms, no surrogates, nothing
\* above U+10FFFF
RECURSIVE decode_utf8(_, _, _)
decode_utf8(b, i, out) ==
    LET n  == Len(b)
        b0 == b[i]
        bad == Raise("UnicodeDecodeError", <<>>)
    IN  IF i > n THEN Return(out)
        ELSE IF b0 < 128 THEN decode_utf8(b, i + 1, Append(out, b0))
        ELSE IF b0 >= 194 /\ b0 <= 223
        THEN IF i + 1 <= n /\ IsCont(b[i + 1])
             THEN decode_utf8(b, i + 2,
                              Append(out, (b0 - 192) * 64 + (b[i + 1] - 128)))
             ELSE bad
        ELSE IF b0 >= 224 /\ b0 <= 239
        THEN IF /\ i + 2 <= n
                /\ IsCont(b[i + 1])
                /\ IsCont(b[i + 2])
                /\ (b0 = 224 => b[i + 1] >= 160)
                /\ (b0 = 237 => b[i + 1] <= 159)
             THEN decode_utf8(b, i + 3,
                              Append(out, (b0 - 224) * 4096
                                          + (b[i + 1] - 128) * 64
                                          + (b[i + 2] - 128)))
             ELSE bad
        ELSE IF b0 >= 240 /\ b0 <= 244
        THEN IF /\ i + 3 <= n
                /\ IsCont(b[i + 1])
                /\ IsCont(b[i + 2])
                /\ IsCont(b[i + 3])
                /\ (b0 = 240 => b[i + 1] >= 144)
                /\ (b0 = 244 => b[i + 1] <= 143)
             THEN decode_utf8(b, i + 4,
                              Append(out, (b0 - 240) * 262144
                                          + (b[i + 1] - 128) * 4096
                                          + (b[i + 2] - 128) * 64
                                          + (b[i + 3] - 128)))
             ELSE bad
        ELSE bad

\* The character the GBK table gives a two-byte code.  The pairs the model's
\* payloads hold are tabulated; any other assigned pair stands for itself as
\* a value above U+10FFFF (the table is a bijection onto its characters).
GbkChar(lead, trail) ==
    IF lead = 196 /\ trail = 227 THEN 20320
    ELSE IF lead = 195 /\ trail = 169 THEN 33541
    ELSE IF lead = 192 /\ trail = 128 THEN 32430
    ELSE 1114112 + lead * 256 + trail

\* bytes.decode("gbk"): ASCII bytes stand for themselves, a lead byte
\* 0x81..0xFE takes a trail byte 0x40..0xFE other than 0x7F
RECURSIVE decode_gbk(_, _, _)
decode_gbk(b, i, out) ==
    LET n  == Len(b)
        b0 == b[i]
        bad == Raise("UnicodeDecodeError", <<>>)
    IN  IF i > n THEN Return(out)
        ELSE IF b0 < 128 THEN decode_gbk(b, i + 1, Append(out, b0))
        ELSE IF /\ b0 >= 129 /\ b0 <= 254
                /\ i + 1 <= n
                /\ b[i + 1] >= 64 /\ b[i + 1] <= 254 /\ b[i + 1] # 127
        THEN decode_gbk(b, i + 2, Append(out, GbkChar(b0, b[i + 1])))
        ELSE bad

\* bytes.decode("latin-1"): every byte is its own code point; never fails
decode_latin1(b) == Return(b)

(***************************************************************************)
(* The optional libraries.  What PyPDF2 / python-docx make of a file is    *)
(* outside this repository: a call meets one of these outcomes.            *)
(*   missing : the import raises ImportError                               *)
(*   texts   : the library opens the file; texts are the page texts        *)
(*             (PyPDF2) or the paragraph texts (python-docx)               *)
(*   raise   : the library raises while opening or reading                 *)
(***************************************************************************)
LibMissing == [kind |-> "missing", texts |-> <<>>, msg |-> <<>>]

LibTexts(ts) == [kind |-> "texts", texts |-> ts, msg |-> <<>>]

LibRaises(m) == [kind |-> "raise", texts |-> <<>>, msg |-> m]

\* text = ""; for t in texts: text += t + "\n"
RECURSIVE JoinLines(_)
JoinLines(ts) ==
    IF ts = <<>> THEN <<>> ELSE Head(ts) \o <<10>> \o JoinLines(Tail(ts))

(***************************************************************************)
(* PDFParser                                                               *)
(***************************************************************************)
PDF_MISSING ==
    <<91, 80, 68, 70, 32, 22788, 29702, 38656, 35201, 23433, 35013, 32, 80,
      121, 80, 68, 70, 50, 32, 24211, 93>>

PDF_ERROR == <<91, 80, 68, 70, 32, 22788, 29702, 38169, 35823, 58, 32>>

PDFParser_parse(file_bytes, filename, lib) ==
    IF lib.kind = "missing" THEN Return(PDF_MISSING)
    ELSE IF lib.kind = "raise" THEN Return(PDF_ERROR \o lib.msg \o <<93>>)
    ELSE Return(strip(JoinLines(lib.texts)))

MIME_PDF == <<97, 112, 112, 108, 105, 99, 97, 116, 105, 111, 110, 47, 112, 100, 102>>

EXT_PDF == <<46, 112, 100, 102>>

\* PDFParser.supports comparing the extension as written
PDFParser_supports_case_sensitive(mime_type, filename) ==
    IF mime_type = MIME_PDF THEN Return(TRUE)
    ELSE IF ~IsStr(filename) THEN NoAttribute(<<108, 111, 119, 101, 114>>)
    ELSE Return(endswith(filename, EXT_PDF))

PDFParser_supports(mime_type, filename) ==
    IF mime_type = MIME_PDF THEN Return(TRUE)
    ELSE IF ~IsStr(filename) THEN NoAttribute(<<108, 111, 119, 101, 114>>)
    ELSE Return(endswith(lower(filename), EXT_PDF))

(***************************************************************************)
(* DocxParser                                                              *)
(***************************************************************************)
DOCX_MISSING ==
    <<91, 68, 79, 67, 88, 32, 22788, 29702, 38656, 35201, 23433, 35013, 32,
      112, 121, 116, 104, 111, 110, 45, 100, 111, 99, 120, 32, 24211, 93>>

DOCX_ERROR == <<91, 68, 79, 67, 88, 32, 22788, 29702, 38169, 35823, 58, 32>>

DocxParser_parse(file_bytes, filename, lib) ==
    IF lib.kind = "missing" THEN Return(DOCX_MISSING)
    ELSE IF lib.kind = "raise" THEN Return(DOCX_ERROR \o lib.msg \o <<93>>)
    ELSE Return(strip(JoinLines(lib.texts)))

MIME_DOC ==
    <<97, 112, 112, 108, 105, 99, 97, 116, 105, 111, 110, 47, 109, 115, 119,
      111, 114, 100>>

MIME_DOCX ==
    <<97, 112, 112, 108, 105, 99, 97, 116, 105, 111, 110, 47, 118, 110, 100,
      46, 111, 112, 101, 110, 120, 109, 108, 102, 111, 114, 109, 97, 116, 115,
      45, 111, 102, 102, 105, 99, 101, 100, 111, 99, 117, 109, 101, 110, 116,
      46, 119, 111, 114, 100, 112, 114, 111, 99, 101, 115, 115, 105, 110, 103,
      109, 108, 46, 100, 111, 99, 117, 109, 101, 110, 116>>

EXT_DOC == <<46, 100, 111, 99>>

EXT_DOCX == <<46, 100, 111, 99, 120>>

DocxParser_supports(mime_type, filename) ==
    IF mime_type \in {MIME_DOC, MIME_DOCX} THEN Return(TRUE)
    ELSE IF ~IsStr(filename) THEN NoAttribute(<<108, 111, 119, 101, 114>>)
    ELSE Return(\/ endswith(lower(filename), EXT_DOC)
                \/ endswith(lower(filename), EXT_DOCX))

(***************************************************************************)
(* TextParser                                                              *)
(***************************************************************************)
TEXT_UNDECODABLE ==
    <<91, 26080, 27861, 35299, 30721, 25991, 26412, 25991, 20214, 32>>

\* TextParser.parse trimming the text it decoded
TextParser_parse_stripped(file_bytes, filename) ==
    LET u == decode_utf8(file_bytes, 1, <<>>)
        g == decode_gbk(file_bytes, 1, <<>>)
        l == decode_latin1(file_bytes)
    IN  IF u.kind = "return" THEN Return(strip(u.val))
        ELSE IF g.kind = "return" THEN Return(strip(g.val))
        ELSE Return(strip(l.val))

\* TextParser.parse trying GBK before UTF-8
TextParser_parse_gbk_first(file_bytes, filename) ==
    LET u == decode_utf8(file_bytes, 1, <<>>)
        g == decode_gbk(file_bytes, 1, <<>>)
        l == decode_latin1(file_bytes)
    IN  IF g.kind = "return" THEN g
        ELSE IF u.kind = "return" THEN u
        ELSE l

TextParser_parse(file_bytes, filename) ==
    LET u == decode_utf8(file_bytes, 1, <<>>)
        g == decode_gbk(file_bytes, 1, <<>>)
        l == decode_latin1(file_bytes)
    IN  IF u.kind = "return" THEN u
        ELSE IF g.kind = "return" THEN g
        ELSE IF l.kind = "return" THEN l
        ELSE Return(TEXT_UNDECODABLE \o Format(filename) \o <<93>>)

MIME_TEXT_PREFIX == <<116, 101, 120, 116, 47>>

\* .txt .md .csv .json .xml .html .htm
TEXT_EXTS ==
    { <<46, 116, 120, 116>>, <<46, 109, 100>>, <<46, 99, 115, 118>>,
      <<46, 106, 115, 111, 110>>, <<46, 120, 109, 108>>,
      <<46, 104, 116, 109, 108>>, <<46, 104, 116, 109>> }

TextParser_supports(mime_type, filename) ==
    IF ~IsStr(mime_type)
    THEN NoAttribute(<<115, 116, 97, 114, 116, 115, 119, 105, 116, 104>>)
    ELSE IF startswith(mime_type, MIME_TEXT_PREFIX) THEN Return(TRUE)
    ELSE IF ~IsStr(filename) THEN NoAttribute(<<108, 111, 119, 101, 114>>)
    ELSE Return(\E e \in TEXT_EXTS : endswith(lower(filename), e))

(***************************************************************************)
(* Extractors a client registers.  register_parser takes any object; these *)
(* three stand for what a client can hand it: an extractor for a new       *)
(* format, one that claims every file, and one that breaks the contract of *)
(* DocumentParser: its supports takes the extension with                   *)
(* filename.rsplit(".", 1)[1], so it raises on a name without a dot and    *)
(* misses an upper-case extension, and its parse raises.                   *)
(***************************************************************************)
EXT_ZIP == <<46, 122, 105, 112>>

\* " zip listing\n"
ZIP_TEXT == <<32, 122, 105, 112, 32, 108, 105, 115, 116, 105, 110, 103, 10>>

\* "any"
ANY_TEXT == <<97, 110, 121>>

\* filename.lower().endswith(".zip")
ZipParser_supports(mime_type, filename) ==
    IF ~IsStr(filename) THEN NoAttribute(<<108, 111, 119, 101, 114>>)
    ELSE Return(endswith(lower(filename), EXT_ZIP))

\* filename.rsplit(".", 1)[1] == "zip"
FaultyZipParser_supports(mime_type, filename) ==
    IF ~IsStr(filename) THEN NoAttribute(<<114, 115, 112, 108, 105, 116>>)
    ELSE IF \A i \in 1..Len(filename) : filename[i] # 46
    THEN Raise("IndexError",
               <<108, 105, 115, 116, 32, 105, 110, 100, 101, 120, 32, 111,
                 117, 116, 32, 111, 102, 32, 114, 97, 110, 103, 101>>)
    ELSE LET dot == CHOOSE i \in 1..Len(filename) :
                        /\ filename[i] = 46
                        /\ \A j \in (i + 1)..Len(filename) : filename[j] # 46
         IN  Return(SubSeq(filename, dot + 1, Len(filename))
                        = <<122, 105, 112>>)

CustomParsers == {"ZipParser", "AnyParser", "FaultyZipParser"}

BuiltinParsers == {"PDFParser", "DocxParser", "TextParser"}

\* parser.supports(mime_type, filename)
supports(parser, mime_type, filename) ==
    CASE parser = "PDFParser"  -> PDFParser_supports(mime_type, filename)
      [] parser = "DocxParser" -> DocxParser_supports(mime_type, filename)
      [] parser = "TextParser" -> TextParser_supports(mime_type, filename)
      [] parser = "ZipParser"  -> ZipParser_supports(mime_type, filename)
      [] parser = "AnyParser"  -> Return(TRUE)
      [] OTHER -> FaultyZipParser_supports(mime_type, filename)

\* parser.parse(file_bytes, filename)
parse(parser, file_bytes, filename, lib) ==
    CASE parser = "PDFParser"  -> PDFParser_parse(file_bytes, filename, lib)
      [] parser = "DocxParser" -> DocxParser_parse(file_bytes, filename, lib)
      [] parser = "TextParser" -> TextParser_parse(file_bytes, filename)
      [] parser = "ZipParser"  -> Return(ZIP_TEXT)
      [] parser = "AnyParser"  -> Return(ANY_TEXT)
      [] OTHER -> Raise("RuntimeError",
                        <<112, 97, 114, 115, 101, 32, 102, 97, 105, 108, 101,
                          100>>)

(***************************************************************************)
(* DocumentParserFactory.  The registry is the sequence _parsers; a parser *)
(* object is identified by its position in it, 0 standing for None.        *)
(***************************************************************************)
DocumentParserFactory_init == <<"PDFParser", "DocxParser", "TextParser">>

\* for parser in self._parsers: if parser.supports(...): return parser
RECURSIVE get_parser_from(_, _, _, _)
get_parser_from(registry, i, mime_type, filename) ==
    IF i > Len(registry) THEN Return(0)
    ELSE LET s == supports(registry[i], mime_type, filename)
         IN  IF s.kind = "raise" THEN s
             ELSE IF s.val THEN Return(i)
             ELSE get_parser_from(registry, i + 1, mime_type, filename)

\* get_parser keeping the last match instead of returning the first
RECURSIVE get_parser_last_from(_, _, _, _, _)
get_parser_last_from(registry, i, mime_type, filename, found) ==
    IF i > Len(registry) THEN Return(found)
    ELSE LET s == supports(registry[i], mime_type, filename)
         IN  IF s.kind = "raise" THEN s
             ELSE get_parser_last_from(registry, i + 1, mime_type, filename,
                                       IF s.val THEN i ELSE found)

get_parser_last(registry, mime_type, filename) ==
    get_parser_last_from(registry, 1, mime_type, filename, 0)

get_parser(registry, mime_type, filename) ==
    get_parser_from(registry, 1, mime_type, filename)

\* register_parser appending to a copy: the registry keeps what it held
register_parser_dropped(registry, parser) == registry

\* register_parser overwriting the last entry
register_parser_replacing(registry, parser) ==
    [registry EXCEPT ![Len(registry)] = parser]

\* register_parser putting the new extractor first
register_parser_first(registry, parser) == <<parser>> \o registry

\* self._parsers.append(parser)
register_parser(registry, parser) == Append(registry, parser)

(***************************************************************************)
(* extract_file_content                                                    *)
(***************************************************************************)
\* "[不支持的文件类型: "
UNSUPPORTED_PREFIX ==
    <<91, 19981, 25903, 25345, 30340, 25991, 20214, 31867, 22411, 58, 32>>

\* " for "
FOR_INFIX == <<32, 102, 111, 114, 32>>

\* "[处理文件 "
ERROR_PREFIX == <<91, 22788, 29702, 25991, 20214, 32>>

\* " 时出错: "
ERROR_INFIX == <<32, 26102, 20986, 38169, 58, 32>>

\* the placeholder with the file name and the MIME type in each other's place
UnsupportedPlaceholder_swapped(mime_type, filename) ==
    UNSUPPORTED_PREFIX \o Format(filename) \o FOR_INFIX \o Format(mime_type)
        \o <<93>>

UnsupportedPlaceholder(mime_type, filename) ==
    UNSUPPORTED_PREFIX \o Format(mime_type) \o FOR_INFIX \o Format(filename)
        \o <<93>>

ErrorPlaceholder(filename, message) ==
    ERROR_PREFIX \o Format(filename) \o ERROR_INFIX \o message \o <<93>>

\* the try block asking the registry before it decodes the payload
extract_try_lookup_first(registry, base64_data, filename, mime_type, lib) ==
    LET file_bytes == b64decode(base64_data)
        parser     == get_parser(registry, mime_type, filename)
    IN  IF parser.kind = "raise" THEN parser
        ELSE IF parser.val = 0
        THEN Return(UnsupportedPlaceholder(mime_type, filename))
        ELSE IF file_bytes.kind = "raise" THEN file_bytes
        ELSE [parse(registry[parser.val], file_bytes.val, filename, lib)
                EXCEPT !.parsed = <<parser.val>>]

\* the try block trimming what the extractor returned
extract_try_stripped(registry, base64_data, filename, mime_type, lib) ==
    LET file_bytes == b64decode(base64_data)
        parser     == get_parser(registry, mime_type, filename)
        text       == parse(registry[parser.val], file_bytes.val, filename, lib)
    IN  IF file_bytes.kind = "raise" THEN file_bytes
        ELSE IF parser.kind = "raise" THEN parser
        ELSE IF parser.val = 0
        THEN Return(UnsupportedPlaceholder(mime_type, filename))
        ELSE IF text.kind = "raise"
        THEN [text EXCEPT !.parsed = <<parser.val>>]
        ELSE [text EXCEPT !.val = strip(text.val), !.parsed = <<parser.val>>]

\* the body of the try block, lines 225-233
extract_try(registry, base64_data, filename, mime_type, lib) ==
    LET file_bytes == b64decode(base64_data)
        parser     == get_parser(registry, mime_type, filename)
    IN  IF file_bytes.kind = "raise" THEN file_bytes
        ELSE IF parser.kind = "raise" THEN parser
        ELSE IF parser.val = 0
        THEN Return(UnsupportedPlaceholder(mime_type, filename))
        ELSE [parse(registry[parser.val], file_bytes.val, filename, lib)
                EXCEPT !.parsed = <<parser.val>>]

\* extract_file_content with the except clause left out
extract_file_content_uncaught(registry, base64_data, filename, mime_type, lib) ==
    extract_try(registry, base64_data, filename, mime_type, lib)

\* try: ... except Exception as e: return f"[处理文件 {filename} 时出错: {str(e)}]"
extract_file_content(registry, base64_data, filename, mime_type, lib) ==
    LET r == extract_try(registry, base64_data, filename, mime_type, lib)
    IN  IF r.kind = "raise"
        THEN [Return(ErrorPlaceholder(filename, r.msg)) EXCEPT !.parsed = r.parsed]
        ELSE r

(***************************************************************************)
(* process_message_content / process_messages (react_agent/utils.py).      *)
(* A content is a str or a list of parts; a part is a str or a dict.  A    *)
(* dict is a function from the keys it holds to their values, None for a   *)
(* null; the value of "metadata" is itself a dict or None.                 *)
(***************************************************************************)
PyStr(s) == [py |-> "str", s |-> s]

PyList(items) == [py |-> "list", items |-> items]

PyDict(d) == [py |-> "dict", d |-> d]

PyNone == [py |-> "NoneType"]

\* the dict with no keys
EmptyDict == [k \in {} |-> None]

\* d.get(key, default)
get(d, key, default) == IF key \in DOMAIN d THEN d[key] ELSE default

TYPE_TEXT == <<116, 101, 120, 116>>

TYPE_FILE == <<102, 105, 108, 101>>

SOURCE_BASE64 == <<98, 97, 115, 101, 54, 52>>

\* "unknown_file"
DEFAULT_FILENAME ==
    <<117, 110, 107, 110, 111, 119, 110, 95, 102, 105, 108, 101>>

\* "application/octet-stream"
DEFAULT_MIME ==
    <<97, 112, 112, 108, 105, 99, 97, 116, 105, 111, 110, 47, 111, 99, 116,
      101, 116, 45, 115, 116, 114, 101, 97, 109>>

\* f"\n\n文件内容 ({filename}):\n{file_content}"
FileBlock(filename, file_content) ==
    <<10, 10, 25991, 20214, 20869, 23481, 32, 40>> \o Format(filename)
        \o <<41, 58, 10>> \o file_content

\* item.get("type") == "text"
is_text_part(d) == get(d, "type", None) = TYPE_TEXT

\* the test of line 54 without its source_type half
is_base64_file_any_source(d) == get(d, "type", None) = TYPE_FILE

\* item.get("type") == "file" and item.get("source_type") == "base64"
is_base64_file(d) ==
    /\ get(d, "type", None) = TYPE_FILE
    /\ get(d, "source_type", None) = SOURCE_BASE64

\* the outcome r of process_message_content with what the call did on the
\* way: parsed, the parse invocations, and extracted, the arguments of its
\* extract_file_content calls, in call order
Traced(r, parsed, extracted) ==
    [kind |-> r.kind, val |-> r.val, exc |-> r.exc, msg |-> r.msg,
     parsed |-> parsed, extracted |-> extracted]

\* the for loop of lines 48-63 from item i on, then line 65; processed_content
\* is the list built so far
RECURSIVE process_items(_, _, _, _, _, _, _)
process_items(registry, items, i, processed_content, parsed, extracted, lib) ==
    IF i > Len(items)
    THEN LET joined == join(processed_content)
         IN  IF joined.kind = "raise"
             THEN Traced(joined, parsed, extracted)
             ELSE Traced(Return(strip(joined.val)), parsed, extracted)
    ELSE LET item == items[i]
         IN  IF item.py = "str"
             THEN process_items(registry, items, i + 1,
                                Append(processed_content, item.s), parsed,
                                extracted, lib)
             ELSE IF is_text_part(item.d)
             THEN process_items(registry, items, i + 1,
                                Append(processed_content,
                                       get(item.d, "text", <<>>)),
                                parsed, extracted, lib)
             ELSE IF is_base64_file(item.d)
             THEN LET file_data == get(item.d, "data", <<>>)
                      metadata  == get(item.d, "metadata", PyDict(EmptyDict))
                      filename  == get(metadata.d, "filename", DEFAULT_FILENAME)
                      mime_type == get(item.d, "mime_type", DEFAULT_MIME)
                      file_content ==
                          extract_file_content(registry, file_data, filename,
                                               mime_type, lib)
                      args == <<file_data, filename, mime_type>>
                  IN  IF metadata.py = "NoneType"
                      THEN Traced(NoAttribute(<<103, 101, 116>>), parsed,
                                  extracted)
                      ELSE IF file_content.kind = "raise"
                      THEN Traced(file_content,
                                  parsed \o file_content.parsed,
                                  Append(extracted, args))
                      ELSE process_items(
                               registry, items, i + 1,
                               Append(processed_content,
                                      FileBlock(filename, file_content.val)),
                               parsed \o file_content.parsed,
                               Append(extracted, args), lib)
             ELSE process_items(registry, items, i + 1, processed_content,
                                parsed, extracted, lib)

\* process_message_content trimming a str content too
process_message_content_trimming(registry, content, lib) ==
    IF content.py = "str" THEN Traced(Return(strip(content.s)), <<>>, <<>>)
    ELSE process_items(registry, content.items, 1, <<>>, <<>>, <<>>, lib)

process_message_content(registry, content, lib) ==
    IF content.py = "str" THEN Traced(Return(content.s), <<>>, <<>>)
    ELSE process_items(registry, content.items, 1, <<>>, <<>>, <<>>, lib)

\* A message is an object with a content, one other field (name) and, for a
\* pydantic message, model_copy.  process_messages yields the outcome (the
\* list returned, or the exception) and the input objects as the call
\* leaves them: without model_copy the "copy" is the input object itself.
\* one turn of the loop (lines 78-83) on message i, whose content processes
\* to the outcome c
RECURSIVE process_messages_from(_, _, _, _, _, _)
process_message_at(registry, messages, i, processed_messages, parsed, lib, c) ==
    LET message == messages[i]
        processed_message == [message EXCEPT !.content = PyStr(c.val)]
    IN  IF c.kind = "raise"
        THEN [out   |-> [Raise(c.exc, c.msg)
                            EXCEPT !.parsed = parsed \o c.parsed],
              after |-> messages]
        ELSE process_messages_from(
                 registry,
                 IF message.model_copy THEN messages
                 ELSE [messages EXCEPT ![i] = processed_message],
                 i + 1,
                 Append(processed_messages, processed_message),
                 parsed \o c.parsed, lib)

process_messages_from(registry, messages, i, processed_messages, parsed, lib) ==
    IF i > Len(messages)
    THEN [out   |-> [Return(processed_messages) EXCEPT !.parsed = parsed],
          after |-> messages]
    ELSE CHOOSE r \in
             { process_message_at(registry, messages, i, processed_messages,
                                  parsed, lib, c) :
                 c \in {process_message_content(registry, messages[i].content,
                                                lib)} } : TRUE

process_messages(registry, messages, lib) ==
    process_messages_from(registry, messages, 1, <<>>, <<>>, lib)

(***************************************************************************)
(* The inputs the operations are called with.                              *)
(***************************************************************************)
\* base64_data: "aGk=" (hi), "IGhpIAo=" ( hi \n), "w6k=" (C3 A9, UTF-8 of
\* U+00E9), "xOM=" (C4 E3, GBK only), "/w==" (FF, Latin-1 only), "" (no
\* bytes), "aG k=" (hi, a blank discarded); and what does not decode: "a",
\* "aGk" (no padding), U+00E9 (not ASCII), None
Payloads ==
    { <<97, 71, 107, 61>>, <<73, 71, 104, 112, 73, 65, 111, 61>>,
      <<119, 54, 107, 61>>, <<120, 79, 77, 61>>, <<47, 119, 61, 61>>, <<>>,
      <<97, 71, 32, 107, 61>>,
      <<97>>, <<97, 71, 107>>, <<233>>, None }

\* filename: a.pdf, A.PDF, r.docx, R.DOC, a.txt, notes.MD, archive.zip,
\* B.ZIP, x.pdf.zip, noext, and None
Filenames ==
    { <<97, 46, 112, 100, 102>>, <<65, 46, 80, 68, 70>>,
      <<114, 46, 100, 111, 99, 120>>, <<82, 46, 68, 79, 67>>,
      <<97, 46, 116, 120, 116>>, <<110, 111, 116, 101, 115, 46, 77, 68>>,
      <<97, 114, 99, 104, 105, 118, 101, 46, 122, 105, 112>>,
      <<66, 46, 90, 73, 80>>,
      <<120, 46, 112, 100, 102, 46, 122, 105, 112>>,
      <<110, 111, 101, 120, 116>>, None }

\* text/plain
MIME_TEXT_PLAIN == <<116, 101, 120, 116, 47, 112, 108, 97, 105, 110>>

\* application/zip
MIME_ZIP ==
    <<97, 112, 112, 108, 105, 99, 97, 116, 105, 111, 110, 47, 122, 105, 112>>

\* mime_type: application/pdf, application/msword, the OOXML Word type,
\* text/plain, Text/Plain, application/zip, application/octet-stream, None
MimeTypes ==
    { MIME_PDF, MIME_DOC, MIME_DOCX, MIME_TEXT_PLAIN,
      <<84, 101, 120, 116, 47, 80, 108, 97, 105, 110>>,
      MIME_ZIP, DEFAULT_MIME, None }

\* what a library makes of a file: not installed; the texts " p1", "p2 ";
\* raising "EOF marker not found"
LibOutcomes ==
    { LibMissing,
      LibTexts(<< <<32, 112, 49>>, <<112, 50, 32>> >>),
      LibRaises(<<69, 79, 70, 32, 109, 97, 114, 107, 101, 114, 32, 110, 111,
                  116, 32, 102, 111, 117, 110, 100>>) }

\* "hello"
HELLO == <<104, 101, 108, 108, 111>>

\* a type=file part with base64 source: {"type": "file", "source_type":
\* "base64", "data": data, "mime_type": mime, "metadata": {"filename": name}}
FilePart(data, mime, name) ==
    PyDict([type |-> TYPE_FILE, source_type |-> SOURCE_BASE64, data |-> data,
            mime_type |-> mime, metadata |-> PyDict([filename |-> name])])

\* the parts of a list-valued content: plain strings; type=text parts with
\* the text present, missing and null; type=file parts with each field
\* present, missing and null; parts of another type or source
Parts ==
    { PyStr(HELLO), PyStr(<<32, 120, 32>>),
      PyDict([type |-> TYPE_TEXT, text |-> HELLO]),
      PyDict([type |-> TYPE_TEXT]),
      PyDict([type |-> TYPE_TEXT, text |-> None]),
      FilePart(<<97, 71, 107, 61>>, MIME_TEXT_PLAIN, <<97, 46, 116, 120, 116>>),
      FilePart(<<97, 71, 107, 61>>, MIME_ZIP,
               <<97, 114, 99, 104, 105, 118, 101, 46, 122, 105, 112>>),
      FilePart(<<97, 71, 107, 61>>, MIME_PDF, None),
      FilePart(None, None, None),
      PyDict([type |-> TYPE_FILE, source_type |-> SOURCE_BASE64]),
      PyDict([type |-> TYPE_FILE, source_type |-> SOURCE_BASE64,
              data |-> <<97, 71, 107, 61>>, mime_type |-> MIME_TEXT_PLAIN,
              metadata |-> PyNone]),
      PyDict([type |-> TYPE_FILE, source_type |-> <<117, 114, 108>>,
              data |-> <<97, 71, 107, 61>>]),
      PyDict([type |-> <<105, 109, 97, 103, 101, 95, 117, 114, 108>>]),
      PyDict(EmptyDict) }

\* the sequences of at most n elements of S
SeqsUpTo(S, n) == UNION {[1..k -> S] : k \in 0..n}

\* message contents: a str, or a list of at most MaxParts parts
Contents ==
    {PyStr(HELLO), PyStr(<<32, 104, 105, 32>>)}
        \cup {PyList(items) : items \in SeqsUpTo(Parts, MaxParts)}

\* the contents of the messages handed to process_messages
MessageContents ==
    { PyStr(<<32, 104, 105, 32>>),
      PyList(<<PyDict([type |-> TYPE_TEXT, text |-> HELLO]),
               FilePart(<<97, 71, 107, 61>>, MIME_TEXT_PLAIN,
                        <<97, 46, 116, 120, 116>>)>>),
      PyList(<<PyDict([type |-> TYPE_TEXT, text |-> None])>>) }

Messages ==
    [content : MessageContents, name : {"human", "ai"}, model_copy : BOOLEAN]

(***************************************************************************)
(* The state: the process-wide registry _parser_factory._parsers, the      *)
(* extractors handed to register_parser so far, and the call the client    *)
(* has made and not yet taken the result of.                               *)
(***************************************************************************)
VARIABLES parsers, registered, call

\* the threads of the concurrent callers (none in a sequential behaviour)
VARIABLES threads

\* the web API (src/web): the rows of the users, libraries, library_papers
\* and library_items tables, the responses of login so far, the clock, the number
\* of library ids drawn, the requests in flight and the last response
VARIABLES users, tokens, now, libraries, library_papers, library_items,
          uuids, requests, response

\* history, kept by no code: the tokens issued to an account that delete_user
\* has deleted since
VARIABLES orphaned

web == <<users, tokens, now, libraries, library_papers, library_items,
         uuids, requests, response, orphaned>>

\* the three roles of UserRole
SUPER_ADMIN == "super_admin"
PAPER_ADMIN == "paper_admin"
USER == "user"

\* bcrypt through passlib: verify(plain, hash(p)) is true exactly for plain = p
get_password_hash(password) == <<"bcrypt", password>>

verify_password(plain_password, hashed_password) ==
    hashed_password = get_password_hash(plain_password)

\* The users table of a deployed database.  No handler creates the first
\* super admin (register gives the role user, create_user needs a super
\* admin), so the deployment seeds one.
SeededUsers ==
    [u \in {"root"} |->
        [email |-> "root@x.org", hashed_password |-> get_password_hash("pw"),
         role |-> SUPER_ADMIN]]

NoResponse == [op |-> "none"]

\* the users table as seeded and nothing issued
AuthIdle ==
    /\ users = SeededUsers
    /\ tokens = {}
    /\ now = 0
    /\ orphaned = {}

\* the library tables as created by initialize_tables: empty
LibraryIdle ==
    /\ libraries = {}
    /\ library_papers = {}
    /\ library_items = {}
    /\ uuids = 0
    /\ requests = <<>>

\* the state of what a behaviour of this subsystem leaves alone
elsewhere == <<threads, web>>

vars == <<parsers, registered, call, elsewhere>>

NoCall == [op |-> "none"]

Init ==
    /\ parsers = DocumentParserFactory_init
    /\ registered = <<>>
    /\ call = NoCall
    /\ threads = <<>>
    /\ AuthIdle
    /\ LibraryIdle
    /\ response = NoResponse

\* register_parser(parser), lines 265-271 and 199-205
Register(parser) ==
    /\ call = NoCall
    /\ Len(registered) < MaxRegistered
    /\ parsers' = register_parser(parsers, parser)
    /\ registered' = Append(registered, parser)
    /\ call' = [op |-> "register_parser", parser |-> parser, before |-> parsers]
    /\ UNCHANGED elsewhere

\* _parser_factory.get_parser(mime_type, filename)
GetParser(mime_type, filename) ==
    /\ call = NoCall
    /\ call' = [op |-> "get_parser", mime_type |-> mime_type,
                filename |-> filename,
                out |-> get_parser(parsers, mime_type, filename)]
    /\ UNCHANGED <<parsers, registered, elsewhere>>

\* parser.supports(mime_type, filename) on an extractor of the registry, as
\* get_parser calls it on line 195
Supports(parser, mime_type, filename) ==
    /\ call = NoCall
    /\ \E i \in 1..Len(parsers) : parsers[i] = parser
    /\ call' = [op |-> "supports", parser |-> parser,
                mime_type |-> mime_type, filename |-> filename,
                out |-> supports(parser, mime_type, filename)]
    /\ UNCHANGED <<parsers, registered, elsewhere>>

\* extract_file_content moving the extractor it used to the end of the
\* registry
ExtractFileContent_reordering(base64_data, filename, mime_type, lib) ==
    /\ call = NoCall
    /\ LET out == extract_file_content(parsers, base64_data, filename,
                                       mime_type, lib)
       IN  /\ call' = [op |-> "extract_file_content",
                       base64_data |-> base64_data, filename |-> filename,
                       mime_type |-> mime_type, lib |-> lib, out |-> out]
           /\ parsers' =
                  IF out.parsed = <<>> THEN parsers
                  ELSE LET i == out.parsed[1]
                       IN  SubSeq(parsers, 1, i - 1)
                               \o SubSeq(parsers, i + 1, Len(parsers))
                               \o <<parsers[i]>>
    /\ UNCHANGED <<registered, elsewhere>>

\* extract_file_content(base64_data, filename, mime_type)
ExtractFileContent(base64_data, filename, mime_type, lib) ==
    /\ call = NoCall
    /\ call' = [op |-> "extract_file_content", base64_data |-> base64_data,
                filename |-> filename, mime_type |-> mime_type, lib |-> lib,
                out |-> extract_file_content(parsers, base64_data, filename,
                                             mime_type, lib)]
    /\ UNCHANGED <<parsers, registered, elsewhere>>

\* process_message_content(content)
ProcessMessageContent(content, lib) ==
    /\ call = NoCall
    /\ call' = [op |-> "process_message_content", content |-> content,
                lib |-> lib,
                out |-> process_message_content(parsers, content, lib)]
    /\ UNCHANGED <<parsers, registered, elsewhere>>

\* process_message_content(c) where c is what the call before it returned
\* for the content "of": an already processed content processed again
ProcessAgain ==
    /\ call # NoCall
    /\ call.op = "process_message_content"
    /\ call.out.kind = "return"
    /\ call' = [op |-> "process_message_content",
                content |-> PyStr(call.out.val), lib |-> call.lib,
                of |-> call.content,
                out |-> process_message_content(parsers, PyStr(call.out.val),
                                                call.lib)]
    /\ UNCHANGED <<parsers, registered, elsewhere>>

\* process_messages(messages)
ProcessMessages(messages, lib) ==
    /\ call = NoCall
    /\ LET r == process_messages(parsers, messages, lib)
       IN  call' = [op |-> "process_messages", messages |-> messages,
                    lib |-> lib, out |-> r.out, after |-> r.after]
    /\ UNCHANGED <<parsers, registered, elsewhere>>

\* the client takes the result and goes on
TakeResult ==
    /\ call # NoCall
    /\ call' = NoCall
    /\ UNCHANGED <<parsers, registered, elsewhere>>

Next ==
    \/ \E parser \in CustomParsers : Register(parser)
    \/ \E mime_type \in MimeTypes, filename \in Filenames :
           GetParser(mime_type, filename)
    \/ \E parser \in BuiltinParsers \cup CustomParsers,
          mime_type \in MimeTypes, filename \in Filenames :
           Supports(parser, mime_type, filename)
    \/ \E base64_data \in Payloads, filename \in Filenames,
          mime_type \in MimeTypes, lib \in LibOutcomes :
           ExtractFileContent(base64_data, filename, mime_type, lib)
    \/ \E content \in Contents,
          lib \in {LibMissing, LibTexts(<< <<32, 112, 49>>, <<112, 50, 32>> >>)} :
           ProcessMessageContent(content, lib)
    \/ ProcessAgain
    \/ \E messages \in SeqsUpTo(Messages, MaxMessages), lib \in {LibMissing} :
           ProcessMessages(messages, lib)
    \/ TakeResult

Spec == Init /\ [][Next]_vars

(***************************************************************************)
(* Concurrent callers.  Registrars threads each call register_parser once  *)
(* and Lookups threads each call get_parser once, all on the one           *)
(* _parser_factory.  A step is what CPython runs without releasing the     *)
(* list: register_parser loads self._parsers and then calls append on the  *)
(* list object (line 205); get_parser starts the for loop of line 194 and  *)
(* then takes one turn of it at a time (the iterator's bounds check and    *)
(* fetch, then supports on line 195, which touches nothing shared).        *)
(***************************************************************************)
\* threads calling register_parser
Registrars == 2
\* threads calling get_parser
Lookups == 2

\* list.append(x) on the list object: it extends what the list holds when
\* append runs (current), whatever it held when the reference was loaded
list_append_to_loaded(current, loaded, x) == Append(loaded, x)

list_append(current, loaded, x) == Append(current, x)

\* the (mime_type, filename) pairs the concurrent lookups ask for:
\* archive.zip, B.ZIP and noext as application/zip, a.txt as text/plain
LookupPairs ==
    { <<MIME_ZIP, <<97, 114, 99, 104, 105, 118, 101, 46, 122, 105, 112>>>>,
      <<MIME_ZIP, <<66, 46, 90, 73, 80>>>>,
      <<MIME_ZIP, <<110, 111, 101, 120, 116>>>>,
      <<MIME_TEXT_PLAIN, <<97, 46, 116, 120, 116>>>> }

RegistrarIds == 1..Registrars

LookupIds == (Registrars + 1)..(Registrars + Lookups)

\* a registrar about to call register_parser(parser)
RegistrarThread(parser) ==
    [kind |-> "register_parser", pc |-> "call", parser |-> parser,
     loaded |-> <<>>]

\* a lookup about to call get_parser(mime_type, filename); lo and hi are
\* the lengths of the registry when the call starts and when it ends
LookupThread(pair) ==
    [kind |-> "get_parser", pc |-> "call", mime_type |-> pair[1],
     filename |-> pair[2], i |-> 0, lo |-> 0, hi |-> 0, out |-> Return(0)]

ConcurrentInit ==
    /\ parsers = DocumentParserFactory_init
    /\ registered = <<>>
    /\ call = NoCall
    /\ \E r \in [RegistrarIds -> CustomParsers],
          l \in [LookupIds -> LookupPairs] :
           threads = [t \in RegistrarIds \cup LookupIds |->
                         IF t \in RegistrarIds THEN RegistrarThread(r[t])
                         ELSE LookupThread(l[t])]
    /\ AuthIdle
    /\ LibraryIdle
    /\ response = NoResponse

\* line 205: self._parsers is loaded
RegisterLoad(t) ==
    /\ threads[t].kind = "register_parser"
    /\ threads[t].pc = "call"
    /\ threads' = [threads EXCEPT ![t].pc = "append", ![t].loaded = parsers]
    /\ UNCHANGED <<parsers, registered, call, web>>

\* line 205: append(parser) runs on the list
RegisterAppend(t) ==
    /\ threads[t].kind = "register_parser"
    /\ threads[t].pc = "append"
    /\ parsers' = list_append(parsers, threads[t].loaded, threads[t].parser)
    /\ registered' = Append(registered, threads[t].parser)
    /\ threads' = [threads EXCEPT ![t].pc = "done"]
    /\ UNCHANGED <<call, web>>

\* line 194: the for loop starts at the head of the list
LookupStart(t) ==
    /\ threads[t].kind = "get_parser"
    /\ threads[t].pc = "call"
    /\ threads' = [threads EXCEPT ![t].pc = "for", ![t].i = 1,
                                  ![t].lo = Len(parsers)]
    /\ UNCHANGED <<parsers, registered, call, web>>

\* lines 194-197: one turn of the loop, or its end
LookupTurn(t) ==
    /\ threads[t].kind = "get_parser"
    /\ threads[t].pc = "for"
    /\ LET i == threads[t].i
           done(out) == [threads EXCEPT ![t].pc = "done", ![t].out = out,
                                        ![t].hi = Len(parsers)]
       IN  IF i > Len(parsers) THEN threads' = done(Return(0))
           ELSE LET s == supports(parsers[i], threads[t].mime_type,
                                  threads[t].filename)
                IN  IF s.kind = "raise" THEN threads' = done(s)
                    ELSE IF s.val THEN threads' = done(Return(i))
                    ELSE threads' = [threads EXCEPT ![t].i = i + 1]
    /\ UNCHANGED <<parsers, registered, call, web>>

ConcurrentNext ==
    \/ \E t \in RegistrarIds : RegisterLoad(t)
    \/ \E t \in RegistrarIds : RegisterAppend(t)
    \/ \E t \in LookupIds : LookupStart(t)
    \/ \E t \in LookupIds : LookupTurn(t)

ConcurrentSpec == ConcurrentInit /\ [][ConcurrentNext]_vars

(***************************************************************************)
(* The claims.                                                             *)
(***************************************************************************)
\* what extractor i of the registry answers for the pair of the call
Sup(i) == supports(parsers[i], call.mime_type, call.filename)

\* extractor i is the first to accept the pair: it returns true and every
\* extractor before it returns false
FirstMatch(i) ==
    /\ Sup(i) = Return(TRUE)
    /\ \A j \in 1..(i - 1) : Sup(j) = Return(FALSE)

\* no extractor accepts the pair: every predicate returns false
NoMatch == \A i \in 1..Len(parsers) : Sup(i) = Return(FALSE)

\* C1: every extract_file_content call, whatever its arguments and whatever
\* has been registered, returns a str and raises nothing.
C1_ExtractAlwaysReturnsStr ==
    call.op = "extract_file_content" =>
        /\ call.out.kind = "return"
        /\ call.out.val \in Seq(Nat)

\* C1's case: a registered extractor was chosen, its parse raised, and the
\* call still returned.
C1_Witness ==
    /\ call.op = "extract_file_content"
    /\ call.out.parsed # <<>>
    /\ parsers[call.out.parsed[1]] \in CustomParsers
    /\ parse(parsers[call.out.parsed[1]], <<>>, call.filename, call.lib).kind
           = "raise"
    /\ call.out.kind = "return"

\* C2: process_message_content and process_messages return normally, with
\* str contents, for every content that is a str or a list of parts whose
\* fields are present, missing or null.
C2_MessageProcessingNeverRaises ==
    /\ call.op = "process_message_content" =>
           /\ call.out.kind = "return"
           /\ call.out.val \in Seq(Nat)
    /\ call.op = "process_messages" =>
           /\ call.out.kind = "return"
           /\ \A i \in 1..Len(call.out.val) :
                  /\ call.out.val[i].content.py = "str"
                  /\ call.out.val[i].content.s \in Seq(Nat)

\* C3: get_parser returns the first extractor of the registry that accepts
\* the pair and None when none accepts it; with the built-in order a
\* text/plain file named *.pdf goes to the PDF extractor.
C3_GetParserFirstMatch ==
    call.op = "get_parser" =>
        /\ \A i \in 1..Len(parsers) : FirstMatch(i) => call.out = Return(i)
        /\ NoMatch => call.out = Return(0)
        /\ ( /\ call.mime_type = MIME_TEXT_PLAIN
             /\ IsStr(call.filename)
             /\ endswith(lower(call.filename), EXT_PDF) )
               => /\ call.out = Return(1)
                  /\ parsers[1] = "PDFParser"

\* C3's case: a text/plain file named *.pdf, which both the PDF and the
\* Text extractor accept, looked up with an extractor registered that
\* accepts it too.
C3_Witness ==
    /\ call.op = "get_parser"
    /\ call.mime_type = MIME_TEXT_PLAIN
    /\ call.filename = <<65, 46, 80, 68, 70>>
    /\ Sup(1) = Return(TRUE)
    /\ Sup(3) = Return(TRUE)
    /\ Len(parsers) > 3
    /\ Sup(4) = Return(TRUE)
    /\ call.out = Return(1)

\* the payload of the call decodes
Decodes == b64decode(call.base64_data).kind = "return"

\* "[" the localized "unsupported file type: " <mime_type> " for "
\* <filename> "]"
C4_Placeholder ==
    <<91, 19981, 25903, 25345, 30340, 25991, 20214, 31867, 22411, 58, 32>>
        \o call.mime_type \o <<32, 102, 111, 114, 32>> \o call.filename
        \o <<93>>

\* C4 as claimed: when no extractor accepts the pair, extract_file_content
\* returns the unsupported-type placeholder naming the MIME type and the
\* filename, and invokes no parse.
C4_Original ==
    (call.op = "extract_file_content" /\ NoMatch) =>
        call.out = Return(C4_Placeholder)

\* C4 as amended: when the payload decodes and no extractor accepts the
\* pair, extract_file_content returns the unsupported-type placeholder
\* naming the MIME type and the filename, and invokes no parse.
C4_UnsupportedPlaceholder ==
    (call.op = "extract_file_content" /\ Decodes /\ NoMatch) =>
        call.out = Return(C4_Placeholder)

\* C4's case: application/zip, archive.zip, a payload that decodes, no
\* extractor for it, answered "[不支持的文件类型: application/zip for
\* archive.zip]".
C4_Witness ==
    /\ call.op = "extract_file_content"
    /\ call.mime_type = MIME_ZIP
    /\ call.filename = <<97, 114, 99, 104, 105, 118, 101, 46, 122, 105, 112>>
    /\ Decodes
    /\ NoMatch
    /\ call.out.val =
           <<91, 19981, 25903, 25345, 30340, 25991, 20214, 31867, 22411, 58,
             32, 97, 112, 112, 108, 105, 99, 97, 116, 105, 111, 110, 47, 122,
             105, 112, 32, 102, 111, 114, 32, 97, 114, 99, 104, 105, 118,
             101, 46, 122, 105, 112, 93>>
    /\ call.out.parsed = <<>>

\* C5: when the payload does not decode, extract_file_content returns the
\* error placeholder naming the filename and the decoder's message,
\* whatever the MIME type and the filename, and invokes no parse.
C5_DecodeFailureFirst ==
    (call.op = "extract_file_content" /\ ~Decodes) =>
        call.out =
            Return(<<91, 22788, 29702, 25991, 20214, 32>>
                       \o Format(call.filename)
                       \o <<32, 26102, 20986, 38169, 58, 32>>
                       \o b64decode(call.base64_data).msg \o <<93>>)

\* C5's case: the payload "aGk" (no padding) of a type no extractor
\* accepts, answered "[处理文件 archive.zip 时出错: Incorrect padding]".
C5_Witness ==
    /\ call.op = "extract_file_content"
    /\ call.base64_data = <<97, 71, 107>>
    /\ call.mime_type = MIME_ZIP
    /\ NoMatch
    /\ call.out.val =
           <<91, 22788, 29702, 25991, 20214, 32, 97, 114, 99, 104, 105, 118,
             101, 46, 122, 105, 112, 32, 26102, 20986, 38169, 58, 32, 73,
             110, 99, 111, 114, 114, 101, 99, 116, 32, 112, 97, 100, 100,
             105, 110, 103, 93>>
    /\ call.out.parsed = <<>>

\* C6: when the payload decodes and extractor i is the first to accept the
\* pair, parse is invoked once, on extractor i and no other, and what it
\* returns is the result, unchanged.
C6_ParseResultVerbatim ==
    call.op = "extract_file_content" =>
        \A i \in 1..Len(parsers) :
            (Decodes /\ FirstMatch(i)) =>
                LET text == parse(parsers[i], b64decode(call.base64_data).val,
                                  call.filename, call.lib)
                IN  /\ call.out.parsed = <<i>>
                    /\ text.kind = "return" => call.out.val = text.val

\* C6's case: a registered extractor was the first match and its text,
\* blanks and newline included, is the result.
C6_Witness ==
    /\ call.op = "extract_file_content"
    /\ Decodes
    /\ Len(parsers) > 3
    /\ FirstMatch(4)
    /\ call.out.parsed = <<4>>
    /\ call.out.val = ZIP_TEXT
    /\ strip(ZIP_TEXT) # ZIP_TEXT

\* the call names a file *.zip
ZipFile ==
    /\ IsStr(call.filename)
    /\ endswith(lower(call.filename), EXT_ZIP)

\* the call's result is the text ZipParser registered as number k produced
RoutedToZip(k) ==
    /\ call.out.kind = "return"
    /\ call.out.parsed = <<3 + k>>
    /\ call.out.val = ZIP_TEXT

\* C7 as claimed: once an extractor accepting *.zip is registered, every
\* extract_file_content call with a .zip file is routed to it.
C7_Original ==
    call.op = "extract_file_content" =>
        \A k \in 1..Len(registered) :
            ( /\ registered[k] = "ZipParser"
              /\ \A j \in 1..(k - 1) : registered[j] # "ZipParser"
              /\ ZipFile ) => RoutedToZip(k)

\* C7 as amended: once an extractor accepting *.zip is registered, every
\* extract_file_content call with a .zip file whose payload decodes and
\* whose pair every extractor earlier in the registry (the built-ins and
\* the extractors registered before it) rejects is routed to it.
C7_ZipRouted ==
    call.op = "extract_file_content" =>
        \A k \in 1..Len(registered) :
            ( /\ registered[k] = "ZipParser"
              /\ ZipFile
              /\ Decodes
              /\ \A p \in BuiltinParsers :
                     supports(p, call.mime_type, call.filename) = Return(FALSE)
              /\ \A j \in 1..(k - 1) :
                     supports(registered[j], call.mime_type, call.filename)
                         = Return(FALSE) ) => RoutedToZip(k)

\* C7's case: ZipParser registered second, behind an extractor that rejects
\* the file, and a B.ZIP call answered by it.
C7_Witness ==
    /\ call.op = "extract_file_content"
    /\ Len(registered) = 2
    /\ registered[2] = "ZipParser"
    /\ call.filename = <<66, 46, 90, 73, 80>>
    /\ call.mime_type = MIME_ZIP
    /\ RoutedToZip(2)

\* some built-in extractor accepts the pair
BuiltinAccepts ==
    \E p \in BuiltinParsers :
        supports(p, call.mime_type, call.filename) = Return(TRUE)

\* C8: for a pair some built-in extractor accepts, get_parser chooses the
\* same extractor and extract_file_content returns the same result as with
\* no extractor registered, whatever has been registered.
C8_BuiltinsUnchanged ==
    /\ (call.op = "get_parser" /\ BuiltinAccepts) =>
           LET before == get_parser(DocumentParserFactory_init,
                                    call.mime_type, call.filename)
           IN  /\ call.out = before
               /\ before.kind = "return" =>
                      parsers[before.val]
                          = DocumentParserFactory_init[before.val]
    /\ (call.op = "extract_file_content" /\ BuiltinAccepts) =>
           call.out = extract_file_content(DocumentParserFactory_init,
                                           call.base64_data, call.filename,
                                           call.mime_type, call.lib)

\* C8's case: a .pdf file looked up with two extractors registered that
\* both accept it.
C8_Witness ==
    /\ call.op = "extract_file_content"
    /\ registered = <<"AnyParser", "ZipParser">>
    /\ call.filename = <<120, 46, 112, 100, 102, 46, 122, 105, 112>>
    /\ call.mime_type = MIME_PDF
    /\ Decodes
    /\ call.out.parsed = <<1>>

\* C9: the registry is PDF, Word, Text followed by the registered
\* extractors in registration order; a register call appends exactly one
\* entry at the end and no other step changes the registry.
C9_RegistryAppendOnly ==
    /\ [](parsers = <<"PDFParser", "DocxParser", "TextParser">> \o registered)
    /\ [][ IF registered' # registered
           THEN /\ Len(parsers') = Len(parsers) + 1
                /\ SubSeq(parsers', 1, Len(parsers)) = parsers
                /\ parsers'[Len(parsers')] = registered'[Len(registered')]
           ELSE parsers' = parsers ]_vars

\* C9's case: two extractors registered, lookups and extractions made, and
\* the registry holding the three built-ins and then the two.
C9_Witness ==
    /\ call.op = "extract_file_content"
    /\ call.out.parsed = <<5>>
    /\ registered = <<"FaultyZipParser", "AnyParser">>
    /\ parsers = <<"PDFParser", "DocxParser", "TextParser",
                   "FaultyZipParser", "AnyParser">>

\* the UTF-8 decoding of the call's payload
Utf8 == decode_utf8(b64decode(call.base64_data).val, 1, <<>>)

\* C10 as claimed: for MIME type text/plain and a payload that is valid
\* UTF-8, the result is the UTF-8 decoding of the bytes and has no leading
\* or trailing whitespace.
C10_Original ==
    ( /\ call.op = "extract_file_content"
      /\ call.mime_type = MIME_TEXT_PLAIN
      /\ Decodes
      /\ Utf8.kind = "return" ) =>
        /\ call.out.val = Utf8.val
        /\ strip(call.out.val) = call.out.val

\* C10 as amended: for MIME type text/plain, a filename that is a str not
\* ending in .pdf, .doc or .docx (in any case), and a payload that is valid
\* UTF-8, the result is the UTF-8 decoding of the bytes, leading and
\* trailing whitespace kept, produced by the Text extractor.
C10_TextPlainUtf8 ==
    ( /\ call.op = "extract_file_content"
      /\ call.mime_type = MIME_TEXT_PLAIN
      /\ IsStr(call.filename)
      /\ ~endswith(lower(call.filename), EXT_PDF)
      /\ ~endswith(lower(call.filename), EXT_DOC)
      /\ ~endswith(lower(call.filename), EXT_DOCX)
      /\ Decodes
      /\ Utf8.kind = "return" ) =>
        /\ call.out.kind = "return"
        /\ call.out.val = Utf8.val
        /\ call.out.parsed = <<3>>

\* C10's case: text/plain, a.txt, the payload "IGhpIAo=" (" hi \n"),
\* answered " hi \n".
C10_Witness ==
    /\ call.op = "extract_file_content"
    /\ call.mime_type = MIME_TEXT_PLAIN
    /\ call.filename = <<97, 46, 116, 120, 116>>
    /\ call.base64_data = <<73, 71, 104, 112, 73, 65, 111, 61>>
    /\ call.out.val = <<32, 104, 105, 32, 10>>

\* the bytes of the call's payload
FileBytes == b64decode(call.base64_data).val

\* the call was answered by the Text extractor: the payload decoded and
\* its parse, and no other, was invoked
TextParsed ==
    /\ call.op = "extract_file_content"
    /\ Decodes
    /\ call.out.parsed = <<3>>

\* C11: the Text extractor returns the UTF-8 decoding when the bytes are
\* valid UTF-8, the GBK decoding when they are not valid UTF-8 but valid
\* GBK, and the Latin-1 decoding when they are neither.
C11_EncodingFallbackOrder ==
    TextParsed =>
        LET u == decode_utf8(FileBytes, 1, <<>>)
            g == decode_gbk(FileBytes, 1, <<>>)
            l == decode_latin1(FileBytes)
        IN  /\ call.out.kind = "return"
            /\ u.kind = "return" => call.out.val = u.val
            /\ (u.kind = "raise" /\ g.kind = "return") =>
                   call.out.val = g.val
            /\ (u.kind = "raise" /\ g.kind = "raise") =>
                   /\ l.kind = "return"
                   /\ call.out.val = l.val

\* C11's case: the payload "xOM=", the bytes C4 E3, which are not UTF-8 and
\* are U+4F60 in GBK, answered with U+4F60 and not with the Latin-1
\* U+00C4 U+00E3.
C11_Witness ==
    /\ TextParsed
    /\ call.base64_data = <<120, 79, 77, 61>>
    /\ FileBytes = <<196, 227>>
    /\ decode_utf8(FileBytes, 1, <<>>).kind = "raise"
    /\ decode_latin1(FileBytes).val = <<196, 227>>
    /\ call.out.val = <<20320>>

\* Latin-1 gives every byte a character, so the third decoding of
\* TextParser.parse never fails and the "[无法解码文本文件 <filename>]"
\* placeholder of line 150 is never returned: the case C12 speaks of, bytes
\* that fail all three decodings, does not arise.
Latin1NeverFails ==
    (call.op = "extract_file_content" /\ Decodes) =>
        /\ decode_latin1(FileBytes).kind = "return"
        /\ Len(decode_latin1(FileBytes).val) = Len(FileBytes)
        /\ TextParsed =>
               ~startswith(call.out.val, TEXT_UNDECODABLE)

\* the call names a file *.pdf, in any case, and is made while PyPDF2 is
\* not installed
PdfFileNoLibrary ==
    /\ call.op = "extract_file_content"
    /\ IsStr(call.filename)
    /\ endswith(lower(call.filename), <<46, 112, 100, 102>>)
    /\ call.lib = LibMissing

\* "[PDF 处理需要安装 PyPDF2 库]"
C13_Placeholder ==
    <<91, 80, 68, 70, 32, 22788, 29702, 38656, 35201, 23433, 35013, 32, 80,
      121, 80, 68, 70, 50, 32, 24211, 93>>

\* C13 as claimed: every extract_file_content call with a filename ending
\* .pdf, whatever its MIME type, made while the PDF library is missing,
\* returns the PDF missing-capability placeholder.
C13_Original ==
    PdfFileNoLibrary =>
        /\ call.out.kind = "return"
        /\ call.out.val = C13_Placeholder

\* C13 as amended: every extract_file_content call with a filename ending
\* .pdf, whatever its MIME type, whose payload decodes, made while the PDF
\* library is missing, is answered by the PDF extractor with the PDF
\* missing-capability placeholder.
C13_PdfMissingCapability ==
    (PdfFileNoLibrary /\ Decodes) =>
        /\ call.out.kind = "return"
        /\ call.out.val = C13_Placeholder
        /\ call.out.parsed = <<1>>

\* C13's case: A.PDF sent as text/plain, which the Text extractor accepts
\* too, with a payload that decodes and PyPDF2 missing.
C13_Witness ==
    /\ PdfFileNoLibrary
    /\ Decodes
    /\ call.filename = <<65, 46, 80, 68, 70>>
    /\ call.mime_type = MIME_TEXT_PLAIN
    /\ call.out.val = C13_Placeholder

\* the call processes a content that is a list of parts
ListContent ==
    /\ call.op = "process_message_content"
    /\ call.content.py = "list"

\* the filename a type=file part names: metadata.filename, "unknown_file"
\* when the part has no metadata or the metadata no filename
FilenameOf(d) ==
    IF "metadata" \notin DOMAIN d \/ d.metadata.py # "dict"
    THEN <<117, 110, 107, 110, 111, 119, 110, 95, 102, 105, 108, 101>>
    ELSE IF "filename" \in DOMAIN d.metadata.d THEN d.metadata.d.filename
    ELSE <<117, 110, 107, 110, 111, 119, 110, 95, 102, 105, 108, 101>>

\* what a part contributes according to C14: a plain string itself, a
\* type=text part its text field, a type=file base64 part "\n\n文件内容
\* (<filename>):\n" and the result of extract_file_content(data, filename,
\* mime_type), any other part nothing
Contribution(part) ==
    IF part.py = "str" THEN part.s
    ELSE IF "type" \in DOMAIN part.d /\ part.d.type = <<116, 101, 120, 116>>
    THEN IF "text" \in DOMAIN part.d THEN part.d.text ELSE <<>>
    ELSE IF /\ "type" \in DOMAIN part.d
            /\ part.d.type = <<102, 105, 108, 101>>
            /\ "source_type" \in DOMAIN part.d
            /\ part.d.source_type = <<98, 97, 115, 101, 54, 52>>
    THEN <<10, 10, 25991, 20214, 20869, 23481, 32, 40>>
             \o Format(FilenameOf(part.d)) \o <<41, 58, 10>>
             \o extract_file_content(
                    parsers,
                    IF "data" \in DOMAIN part.d THEN part.d.data ELSE <<>>,
                    FilenameOf(part.d),
                    IF "mime_type" \in DOMAIN part.d THEN part.d.mime_type
                    ELSE <<97, 112, 112, 108, 105, 99, 97, 116, 105, 111,
                           110, 47, 111, 99, 116, 101, 116, 45, 115, 116,
                           114, 101, 97, 109>>,
                    call.lib).val
    ELSE <<>>

\* the contributions of the parts from part i on, one after the other
RECURSIVE Contributions(_, _)
Contributions(items, i) ==
    IF i > Len(items) THEN <<>>
    ELSE Contribution(items[i]) \o Contributions(items, i + 1)

\* a part with a null where the code needs a value: a type=text part whose
\* text is null, or a type=file base64 part whose metadata is null
NullField(part) ==
    /\ part.py = "dict"
    /\ \/ /\ is_text_part(part.d)
          /\ "text" \in DOMAIN part.d
          /\ part.d.text = None
       \/ /\ is_base64_file(part.d)
          /\ "metadata" \in DOMAIN part.d
          /\ part.d.metadata.py = "NoneType"

\* C14: for a content that is a list of parts, process_message_content
\* returns the contributions of the parts, concatenated in part order and
\* trimmed of leading and trailing whitespace.
C14_Concatenation ==
    ListContent =>
        /\ call.out.kind = "return"
        /\ call.out.val = strip(Contributions(call.content.items, 1))

\* The same for the contents none of whose parts has such a null: on them
\* the concatenation is what is returned.
ConcatenationWithoutNullField ==
    ( /\ ListContent
      /\ \A i \in 1..Len(call.content.items) :
             ~NullField(call.content.items[i]) ) =>
        /\ call.out.kind = "return"
        /\ call.out.val = strip(Contributions(call.content.items, 1))

\* C14's example: a text part "hello" followed by the text/plain file a.txt
\* holding "hi" gives "hello\n\n文件内容 (a.txt):\nhi".
HelloThenFile ==
    /\ ListContent
    /\ call.content.items
           = << PyDict([type |-> TYPE_TEXT, text |-> HELLO]),
                FilePart(<<97, 71, 107, 61>>, MIME_TEXT_PLAIN,
                         <<97, 46, 116, 120, 116>>) >>
    /\ call.out.val = <<104, 101, 108, 108, 111, 10, 10, 25991, 20214, 20869,
                        23481, 32, 40, 97, 46, 116, 120, 116, 41, 58, 10,
                        104, 105>>

\* the call processes again what process_message_content returned for the
\* content call.of
Reprocessed ==
    /\ call.op = "process_message_content"
    /\ "of" \in DOMAIN call

\* C15: a str content is returned as it is, leading and trailing
\* whitespace included, and processing what process_message_content
\* returned for a content c returns what it returned for c.
C15_Idempotent ==
    /\ (call.op = "process_message_content" /\ call.content.py = "str") =>
           /\ call.out.kind = "return"
           /\ call.out.val = call.content.s
    /\ Reprocessed =>
           LET once == process_message_content(parsers, call.of, call.lib)
           IN  /\ once.kind = "return"
               /\ call.content = PyStr(once.val)
               /\ call.out.kind = "return"
               /\ call.out.val = once.val

\* C15's case: the list << " x ", the file a.txt >> was processed to
\* "x \n\n文件内容 (a.txt):\nhi" and that processed again.
C15_Witness ==
    /\ Reprocessed
    /\ call.of = PyList(<< PyStr(<<32, 120, 32>>),
                           FilePart(<<97, 71, 107, 61>>, MIME_TEXT_PLAIN,
                                    <<97, 46, 116, 120, 116>>) >>)
    /\ call.out.val = <<120, 32, 10, 10, 25991, 20214, 20869, 23481, 32, 40,
                        97, 46, 116, 120, 116, 41, 58, 10, 104, 105>>

\* the list the call returned has one message per message given, in the
\* same order, each with the fields of the message given except the
\* content, which is process_message_content of the content given
OnlyContentReplaced ==
    /\ Len(call.out.val) = Len(call.messages)
    /\ \A i \in 1..Len(call.messages) :
           LET c == process_message_content(parsers, call.messages[i].content,
                                            call.lib)
           IN  /\ call.out.val[i].name = call.messages[i].name
               /\ call.out.val[i].model_copy = call.messages[i].model_copy
               /\ DOMAIN call.out.val[i] = DOMAIN call.messages[i]
               /\ c.kind = "return"
               /\ call.out.val[i].content = PyStr(c.val)

\* C16: process_messages returns one message per message given, in the
\* same order, with only the content replaced, by process_message_content
\* of the content given.
C16_OnlyContentReplaced ==
    call.op = "process_messages" =>
        /\ call.out.kind = "return"
        /\ OnlyContentReplaced

\* The same for the calls that return: what they return is as C16 says.
OnlyContentReplacedWhenReturned ==
    (call.op = "process_messages" /\ call.out.kind = "return") =>
        OnlyContentReplaced

\* Two messages processed, a pydantic one and a plain one, with list and
\* str contents.
TwoMessagesProcessed ==
    /\ call.op = "process_messages"
    /\ call.out.kind = "return"
    /\ Len(call.messages) = 2
    /\ call.messages[1].model_copy
    /\ ~call.messages[2].model_copy
    /\ call.messages[1].content.py = "list"
    /\ call.messages[1].name # call.messages[2].name
    /\ call.out.val[1].content.py = "str"

\* the filename of the call ends in ext, letter case ignored
FilenameEnds(ext) ==
    /\ IsStr(call.filename)
    /\ endswith(lower(call.filename), ext)

\* the pair of the call is one C17 lists: application/pdf or *.pdf;
\* application/msword, the OOXML Word type, *.doc or *.docx; a MIME type
\* beginning "text/" or *.txt, *.md, *.csv, *.json, *.xml, *.html, *.htm
ListedPair ==
    \/ call.mime_type = <<97, 112, 112, 108, 105, 99, 97, 116, 105, 111, 110, 47, 112, 100, 102>>
    \/ FilenameEnds(<<46, 112, 100, 102>>)
    \/ call.mime_type = <<97, 112, 112, 108, 105, 99, 97, 116, 105, 111, 110, 47, 109, 115, 119, 111, 114, 100>>
    \/ call.mime_type =
           <<97, 112, 112, 108, 105, 99, 97, 116, 105, 111, 110, 47, 118, 110, 100, 46, 111, 112, 101, 110, 120, 109, 108, 102, 111, 114, 109, 97, 116, 115, 45, 111, 102, 102, 105, 99, 101, 100, 111, 99, 117, 109, 101, 110, 116, 46, 119, 111, 114, 100, 112, 114, 111, 99, 101, 115, 115, 105, 110, 103, 109, 108, 46, 100, 111, 99, 117, 109, 101, 110, 116>>
    \/ FilenameEnds(<<46, 100, 111, 99>>)
    \/ FilenameEnds(<<46, 100, 111, 99, 120>>)
    \/ /\ IsStr(call.mime_type)
       /\ startswith(call.mime_type, <<116, 101, 120, 116, 47>>)
    \/ \E ext \in { <<46, 116, 120, 116>>, <<46, 109, 100>>, <<46, 99, 115, 118>>, <<46, 106, 115, 111, 110>>, <<46, 120, 109, 108>>, <<46, 104, 116, 109, 108>>, <<46, 104, 116, 109>> } : FilenameEnds(ext)

\* "[不支持的文件类型: <mime_type> for <filename>]" for the pair of the call
UnsupportedForCall ==
    <<91, 19981, 25903, 25345, 30340, 25991, 20214, 31867, 22411, 58, 32>> \o Format(call.mime_type)
        \o <<32, 102, 111, 114, 32>> \o Format(call.filename) \o <<93>>

\* with only the built-in extractors: get_parser finds an extractor exactly
\* for the listed pairs, and extract_file_content, given a payload that
\* decodes, answers every other pair with the unsupported-type placeholder
BuiltinSupport ==
    /\ call.op = "get_parser" =>
           /\ call.out.kind = "return"
           /\ call.out.val # 0 <=> ListedPair
    /\ (call.op = "extract_file_content" /\ Decodes /\ ~ListedPair) =>
           /\ call.out.kind = "return"
           /\ call.out.val = UnsupportedForCall
           /\ call.out.parsed = <<>>

\* C17: with only the built-in extractors a pair is supported exactly when
\* it is one of the listed pairs, filename endings compared without regard
\* to case and MIME types exactly; every other pair gets the
\* unsupported-type placeholder (given a payload that decodes).
C17_BuiltinSupport ==
    registered = <<>> => BuiltinSupport

\* The same for the pairs whose MIME type and filename are strings.
BuiltinSupportForStrings ==
    ( /\ registered = <<>>
      /\ call.op \in {"get_parser", "extract_file_content"}
      /\ IsStr(call.mime_type)
      /\ IsStr(call.filename) ) => BuiltinSupport

\* Text/Plain with notes.MD: the MIME type, compared exactly, is not a text
\* type, and the ending, compared without regard to case, is .md: Text.
MixedCasePair ==
    /\ registered = <<>>
    /\ call.op = "get_parser"
    /\ call.mime_type = <<84, 101, 120, 116, 47, 80, 108, 97, 105, 110>>
    /\ call.filename = <<110, 111, 116, 101, 115, 46, 77, 68>>
    /\ call.out = Return(3)

\* C18: supports of a built-in extractor returns a boolean, and raises
\* nothing, for every MIME type and filename, null ones included.
C18_SupportsTotal ==
    (call.op = "supports" /\ call.parser \in BuiltinParsers) =>
        call.out \in {Return(TRUE), Return(FALSE)}

\* The same for MIME types and filenames that are strings.
SupportsTotalForStrings ==
    ( /\ call.op = "supports"
      /\ call.parser \in BuiltinParsers
      /\ IsStr(call.mime_type)
      /\ IsStr(call.filename) ) =>
        call.out \in {Return(TRUE), Return(FALSE)}

\* TextParser.supports called with a null MIME type and a.txt raises
\* AttributeError.
SupportsRaisesOnNull ==
    /\ call.op = "supports"
    /\ call.parser = "TextParser"
    /\ call.mime_type = None
    /\ call.filename = <<97, 46, 116, 120, 116>>
    /\ call.out.kind = "raise"
    /\ call.out.exc = "AttributeError"

\* C19: after process_messages every message given still carries the
\* content it was given with, whether or not it offers model_copy.
C19_InputsUnmodified ==
    call.op = "process_messages" => call.after = call.messages

\* The same for the calls all of whose messages offer model_copy.
InputsUnmodifiedWithModelCopy ==
    ( /\ call.op = "process_messages"
      /\ \A i \in 1..Len(call.messages) : call.messages[i].model_copy ) =>
        call.after = call.messages

\* A message without model_copy given with a list content carries the
\* processed string after the call.
InputModified ==
    /\ call.op = "process_messages"
    /\ Len(call.messages) = 1
    /\ ~call.messages[1].model_copy
    /\ call.messages[1].content.py = "list"
    /\ call.out.kind = "return"
    /\ call.after[1].content
           = PyStr(<<104, 101, 108, 108, 111, 10, 10, 25991, 20214, 20869,
                     23481, 32, 40, 97, 46, 116, 120, 116, 41, 58, 10, 104,
                     105>>)

\* a part C20 speaks of: a mapping tagged type=file whose source_type is
\* not "base64", or a mapping whose type is neither "text" nor "file"
Skipped(part) ==
    /\ part.py = "dict"
    /\ LET type == IF "type" \in DOMAIN part.d THEN part.d.type ELSE None
           source_type == IF "source_type" \in DOMAIN part.d
                          THEN part.d.source_type ELSE None
       IN  \/ /\ type = <<102, 105, 108, 101>>
              /\ source_type # <<98, 97, 115, 101, 54, 52>>
           \/ type \notin {<<116, 101, 120, 116>>, <<102, 105, 108, 101>>}

Kept(part) == ~Skipped(part)

\* C20: the parts C20 speaks of contribute nothing and cause no call to
\* extract_file_content: the call ends as the call on the list without
\* them ends, with the same result, the same extract_file_content calls
\* and the same parse invocations, in the same order.
C20_SkippedPartsContributeNothing ==
    ListContent =>
        LET others == SelectSeq(call.content.items, Kept)
            without == process_message_content(parsers, PyList(others),
                                               call.lib)
        IN  /\ call.out = without
            /\ Len(call.out.extracted) <= Len(others)

\* C20's case: a type=file part with source_type "url" that carries data,
\* then the file a.txt: one extract_file_content call, for a.txt, and only
\* the block of a.txt in the result.
C20_Witness ==
    /\ ListContent
    /\ Len(call.content.items) = 2
    /\ Skipped(call.content.items[1])
    /\ {"type", "data"} \subseteq DOMAIN call.content.items[1].d
    /\ call.content.items[1].d.type = TYPE_FILE
    /\ call.content.items[2]
           = FilePart(<<97, 71, 107, 61>>, MIME_TEXT_PLAIN,
                      <<97, 46, 116, 120, 116>>)
    /\ call.out.extracted
           = << << <<97, 71, 107, 61>>, <<97, 46, 116, 120, 116>>,
                   MIME_TEXT_PLAIN >> >>
    /\ call.out.val = <<25991, 20214, 20869, 23481, 32, 40, 97, 46, 116, 120,
                        116, 41, 58, 10, 104, 105>>

\* every thread has returned from its call
AllDone == \A t \in DOMAIN threads : threads[t].pc = "done"

\* the extractors the registrars that have appended handed over, as a
\* bag: extractor class |-> number of registrars that have appended it
Appended(class) ==
    Cardinality({t \in DOMAIN threads :
                    /\ threads[t].kind = "register_parser"
                    /\ threads[t].pc = "done"
                    /\ threads[t].parser = class})

\* the entries of the registry after the three built-ins
AfterBuiltins == SubSeq(parsers, 4, Len(parsers))

\* C21: with register_parser and get_parser calls running concurrently, no
\* append is lost (at every moment the registry is the three built-ins
\* followed by the extractor of each registrar that has appended, once
\* each), and every lookup that has returned returned what get_parser
\* returns on a registry that existed while it ran.
C21_ConcurrentRegisterNotLost ==
    threads # <<>> =>
        /\ Len(parsers) >= 3
        /\ SubSeq(parsers, 1, 3) = <<"PDFParser", "DocxParser", "TextParser">>
        /\ \A class \in CustomParsers :
               Cardinality({k \in 1..Len(AfterBuiltins) : AfterBuiltins[k] = class})
                   = Appended(class)
        /\ \A t \in DOMAIN threads :
               (threads[t].kind = "get_parser" /\ threads[t].pc = "done") =>
                   \E n \in threads[t].lo..threads[t].hi :
                       threads[t].out = get_parser(SubSeq(parsers, 1, n),
                                                   threads[t].mime_type,
                                                   threads[t].filename)

\* C21's case: two registrars loaded the list before either appended, a
\* lookup for B.ZIP started on the registry of three and ended on the
\* registry of five, and returned the ZipParser appended meanwhile.
C21_Witness ==
    /\ AllDone
    /\ Len(parsers) = 5
    /\ \A t \in DOMAIN threads :
           threads[t].kind = "register_parser" =>
               threads[t].loaded = DocumentParserFactory_init
    /\ \E t \in DOMAIN threads :
           /\ threads[t].kind = "get_parser"
           /\ threads[t].filename = <<66, 46, 90, 73, 80>>
           /\ threads[t].lo = 3
           /\ threads[t].hi = 5
           /\ threads[t].out.val > 3
           /\ parsers[threads[t].out.val] = "ZipParser"

\* C22: a step that is an extract_file_content, process_message_content
\* or process_messages call leaves the registry as it was, and a step that
\* changes the registry is a register_parser call.
C22_OnlyRegisterChangesRegistry ==
    [][ /\ ( /\ call' # call
             /\ call'.op \in {"extract_file_content",
                               "process_message_content",
                               "process_messages"} )
               => parsers' = parsers
        /\ parsers' # parsers => call'.op = "register_parser" ]_vars

\* C22's case: with two extractors registered, a file part was handed to
\* one of them by process_message_content, and the registry is the three
\* built-ins and the two, in the order registered.
C22_Witness ==
    /\ call.op = "process_message_content"
    /\ registered = <<"FaultyZipParser", "ZipParser">>
    /\ call.out.parsed # <<>>
    /\ parsers[call.out.parsed[1]] \in CustomParsers
    /\ parsers = <<"PDFParser", "DocxParser", "TextParser",
                   "FaultyZipParser", "ZipParser">>

(***************************************************************************)
(* The web API, accounts (src/web): the users table, the tokens login has  *)
(* issued and the clock.  A request is one step: its dependency            *)
(* (auth_middleware) and then its service method.  Usernames and emails    *)
(* are drawn already stripped; created_at is stored and read by no         *)
(* handler here, so a row is its email, hashed_password and role.          *)
(***************************************************************************)
\* the clock stops at MaxClock; between two ticks of it more time passes
\* than ACCESS_TOKEN_EXPIRE_MINUTES (24 hours), and within one less
MaxClock == 1
\* login answers at most MaxTokens times with a token
MaxTokens == 2

Usernames == {"root", "alice"}

Emails == {"root@x.org", "alice@x.org"}

Roles == {SUPER_ADMIN, PAPER_ADMIN, USER}

\* an Optional field of a request that is None
Absent == "(absent)"

HTTPException(status_code, detail) ==
    [status |-> status_code, detail |-> detail]

\* a handler that returns
Respond(body) == [status |-> 200, detail |-> body]

\* create_access_token(data = {"sub": username}): the payload, signed with
\* SECRET_KEY; exp is the tick the token expires with, the present one
create_access_token(username) ==
    [sub |-> username, exp |-> now, signed |-> TRUE]

\* a bearer string that SECRET_KEY did not sign
ForgedToken == [sub |-> "root", exp |-> MaxClock, signed |-> FALSE]

\* login's AuthResponse: the token and the role stored when it was issued
AuthResponse(token, user_role) == [token |-> token, user_role |-> user_role]

\* the tokens login has issued
Issued == {a.token : a \in tokens}

\* the bearer tokens a request can carry: one login has issued, or a forged one
Bearers == Issued \cup {ForgedToken}

\* every token login can issue within MaxClock, and the forged one
AllBearers ==
    [sub : Usernames, exp : 0..MaxClock, signed : {TRUE}] \cup {ForgedToken}

\* verify_token: jwt.decode raises JWTError for a bad signature and for an
\* exp that lies before the present
verify_token(token) ==
    IF ~token.signed \/ token.exp < now
    THEN HTTPException(401, "invalid token")
    ELSE Respond(token.sub)

\* get_current_user_info answering with the role the token was issued with
get_current_user_info_role_at_login(token) ==
    LET payload == verify_token(token)
    IN  IF payload.status # 200 THEN payload
        ELSE IF payload.detail \notin DOMAIN users
        THEN HTTPException(401, "user not found")
        ELSE Respond([username |-> payload.detail,
                      role |-> (CHOOSE a \in tokens : a.token = token).user_role])

\* get_current_user_info: the token's user and the role stored for it now
get_current_user_info(token) ==
    LET payload == verify_token(token)
    IN  IF payload.status # 200 THEN payload
        ELSE IF payload.detail \notin DOMAIN users
        THEN HTTPException(401, "user not found")
        ELSE Respond([username |-> payload.detail,
                      role |-> users[payload.detail].role])

\* get_current_user: the dependency of the endpoints open to every account
get_current_user(token) ==
    LET user_info == get_current_user_info(token)
    IN  IF user_info.status # 200 THEN user_info
        ELSE Respond(user_info.detail.username)

verify_admin_permission(token, required_role) ==
    LET user_info == get_current_user_info(token)
    IN  IF user_info.status # 200 THEN user_info
        ELSE IF required_role = SUPER_ADMIN
        THEN IF user_info.detail.role # SUPER_ADMIN
             THEN HTTPException(403, "super admin permission required")
             ELSE Respond(user_info.detail.username)
        ELSE IF required_role = PAPER_ADMIN
        THEN IF user_info.detail.role \notin {SUPER_ADMIN, PAPER_ADMIN}
             THEN HTTPException(403, "admin permission required")
             ELSE Respond(user_info.detail.username)
        ELSE Respond(user_info.detail.username)

get_current_super_admin_user(token) ==
    verify_admin_permission(token, SUPER_ADMIN)

get_current_paper_admin_user(token) ==
    verify_admin_permission(token, PAPER_ADMIN)

\* UserRepository.email_exists(email, exclude_username)
email_exists(email, exclude_username) ==
    \E u \in DOMAIN users :
        /\ users[u].email = email
        /\ exclude_username # Absent => u # exclude_username

\* execute_insert_update of an INSERT INTO users: the row is written and
\* True returned, or the primary key is taken, sqlite raises and False is
\* returned
create_user(username, row) ==
    IF username \in DOMAIN users THEN [success |-> FALSE, users |-> users]
    ELSE [success |-> TRUE,
          users |-> [u \in DOMAIN users \cup {username} |->
                        IF u = username THEN row ELSE users[u]]]

\* execute_insert_update of UPDATE users SET role = ? WHERE username = ?:
\* the statement runs and True is returned, whether or not a row matched
update_user_role(table, username, role) ==
    [success |-> TRUE,
     users |-> [u \in DOMAIN table |->
                   IF u = username THEN [table[u] EXCEPT !.role = role]
                   ELSE table[u]]]

\* UPDATE users SET email = ?, hashed_password = ? WHERE username = ?, with
\* the clauses of the fields given
update_user_info(table, username, email, hashed_password) ==
    [u \in DOMAIN table |->
        IF u # username THEN table[u]
        ELSE [table[u] EXCEPT
                 !.email = IF email # Absent THEN email ELSE @,
                 !.hashed_password =
                     IF hashed_password # Absent THEN hashed_password ELSE @]]

\* execute_insert_update of DELETE FROM users WHERE username = ?: True,
\* whether or not a row matched.  Foreign keys are not enforced (no PRAGMA
\* foreign_keys), so no other table changes.
delete_user(username) ==
    [success |-> TRUE,
     users |-> [u \in DOMAIN users \ {username} |-> users[u]]]

\* what a request leaves of the web state when it only answers
Answer(op, token, target, out) ==
    response' = [op |-> op, token |-> token, target |-> target,
                 status |-> out.status, detail |-> out.detail]

\* the parts of the state no account request touches
outside_accounts ==
    <<parsers, registered, call, threads, libraries, library_papers,
      library_items, uuids, requests, orphaned>>

\* POST /auth/login: AuthService.login, lines 41-56
Login(username, password) ==
    /\ Cardinality(tokens) < MaxTokens
    /\ IF username \in DOMAIN users
          /\ verify_password(password, users[username].hashed_password)
       THEN LET access_token == create_access_token(username)
            IN  /\ tokens' = tokens \cup
                        {AuthResponse(access_token, users[username].role)}
                /\ Answer("login", access_token, username,
                          Respond(users[username].role))
       ELSE /\ tokens' = tokens
            /\ Answer("login", ForgedToken, username,
                      HTTPException(401, "wrong username or password"))
    /\ UNCHANGED <<users, now, outside_accounts>>

\* POST /auth/register: AuthService.register, lines 58-103
RegisterAccount(username, password, confirmPassword, email) ==
    /\ IF password # confirmPassword
       THEN /\ users' = users
            /\ Answer("register", ForgedToken, username,
                      HTTPException(400, "passwords differ"))
       ELSE IF username \in DOMAIN users
       THEN /\ users' = users
            /\ Answer("register", ForgedToken, username,
                      HTTPException(400, "username taken"))
       ELSE IF email_exists(email, Absent)
       THEN /\ users' = users
            /\ Answer("register", ForgedToken, username,
                      HTTPException(400, "email taken"))
       ELSE LET created ==
                    create_user(username,
                        [email |-> email,
                         hashed_password |-> get_password_hash(password),
                         role |-> USER])
            IN  /\ users' = created.users
                /\ Answer("register", ForgedToken, username,
                          IF created.success THEN Respond(USER)
                          ELSE HTTPException(500, "user creation failed"))
    /\ UNCHANGED <<tokens, now, outside_accounts>>

\* GET /auth/users/current: get_current_user, then get_user_info
CurrentUser(token) ==
    /\ token \in Bearers
    /\ LET current_user == get_current_user(token)
       IN  Answer("current_user", token, token.sub,
                  IF current_user.status # 200 THEN current_user
                  ELSE Respond(users[current_user.detail].role))
    /\ UNCHANGED <<users, tokens, now, outside_accounts>>

\* a request behind get_current_paper_admin_user (the paper and news
\* editing endpoints): the dependency's answer
PaperAdminRequest(token) ==
    /\ token \in Bearers
    /\ Answer("paper_admin", token, token.sub,
              get_current_paper_admin_user(token))
    /\ UNCHANGED <<users, tokens, now, outside_accounts>>

\* GET /admin/users behind get_current_super_admin_user: the dependency's
\* answer (the list itself is not modelled)
GetUsers(token) ==
    /\ token \in Bearers
    /\ Answer("super_admin", token, token.sub,
              get_current_super_admin_user(token))
    /\ UNCHANGED <<users, tokens, now, outside_accounts>>

\* POST /admin/users: AdminService.create_user, lines 54-101
CreateUser(token, username, email, role) ==
    /\ token \in Bearers
    /\ LET current_admin == get_current_super_admin_user(token)
       IN  IF current_admin.status # 200
           THEN /\ users' = users
                /\ Answer("create_user", token, username, current_admin)
           ELSE IF username \in DOMAIN users
           THEN /\ users' = users
                /\ Answer("create_user", token, username,
                          HTTPException(400, "username taken"))
           ELSE IF email_exists(email, Absent)
           THEN /\ users' = users
                /\ Answer("create_user", token, username,
                          HTTPException(400, "email taken"))
           ELSE LET created ==
                        create_user(username,
                            [email |-> email,
                             hashed_password |-> get_password_hash("pw"),
                             role |-> role])
                IN  /\ users' = created.users
                    /\ Answer("create_user", token, username,
                              IF created.success THEN Respond(role)
                              ELSE HTTPException(500, "user creation failed"))
    /\ UNCHANGED <<tokens, now, outside_accounts>>

\* PUT /admin/users/{username}: AdminService.admin_update_user, lines
\* 103-147; the controller (lines 73-89) does not hand it current_admin
AdminUpdateUser(token, username, email, role, reset_password) ==
    /\ token \in Bearers
    /\ LET current_admin == get_current_super_admin_user(token)
       IN  IF current_admin.status # 200
           THEN /\ users' = users
                /\ Answer("admin_update_user", token, username, current_admin)
           ELSE IF username \notin DOMAIN users
           THEN /\ users' = users
                /\ Answer("admin_update_user", token, username,
                          HTTPException(404, "user not found"))
           ELSE IF email # Absent /\ email_exists(email, username)
           THEN /\ users' = users
                /\ Answer("admin_update_user", token, username,
                          HTTPException(400, "email taken"))
           ELSE LET hashed_password ==
                        IF reset_password # Absent
                        THEN get_password_hash(reset_password) ELSE Absent
                    informed ==
                        IF email # Absent \/ hashed_password # Absent
                        THEN update_user_info(users, username, email,
                                              hashed_password)
                        ELSE users
                    updated ==
                        IF role # Absent /\ role # users[username].role
                        THEN update_user_role(informed, username, role).users
                        ELSE informed
                IN  /\ users' = updated
                    /\ Answer("admin_update_user", token, username,
                              Respond(updated[username].role))
    /\ UNCHANGED <<tokens, now, outside_accounts>>

\* PUT /admin/users/{username}/role: AdminService.update_user_role, lines
\* 149-175
UpdateUserRole(token, username, role) ==
    /\ token \in Bearers
    /\ LET current_admin == get_current_super_admin_user(token)
       IN  IF current_admin.status # 200
           THEN /\ users' = users
                /\ Answer("update_user_role", token, username, current_admin)
           ELSE IF username = current_admin.detail
           THEN /\ users' = users
                /\ Answer("update_user_role", token, username,
                          HTTPException(400, "cannot change own role"))
           ELSE LET updated == update_user_role(users, username, role)
                IN  /\ users' = updated.users
                    /\ Answer("update_user_role", token, username,
                              IF ~updated.success
                              THEN HTTPException(404, "user not found")
                              ELSE Respond(role))
    /\ UNCHANGED <<tokens, now, outside_accounts>>

\* DELETE /admin/users/{username}: AdminService.delete_user, lines 177-202
DeleteUser(token, username) ==
    /\ token \in Bearers
    /\ LET current_admin == get_current_super_admin_user(token)
       IN  IF current_admin.status # 200
           THEN /\ UNCHANGED <<users, orphaned>>
                /\ Answer("delete_user", token, username, current_admin)
           ELSE IF username = current_admin.detail
           THEN /\ UNCHANGED <<users, orphaned>>
                /\ Answer("delete_user", token, username,
                          HTTPException(400, "cannot delete own account"))
           ELSE LET deleted == delete_user(username)
                IN  /\ users' = deleted.users
                    /\ orphaned' = orphaned \cup
                           {t \in Issued : t.sub = username
                                            /\ username \in DOMAIN users}
                    /\ Answer("delete_user", token, username,
                              IF ~deleted.success
                              THEN HTTPException(404, "user not found")
                              ELSE Respond(username))
    /\ UNCHANGED <<tokens, now, parsers, registered, call, threads, libraries,
                   library_papers, library_items, uuids, requests>>

\* more than a token's life passes
Tick ==
    /\ now < MaxClock
    /\ now' = now + 1
    /\ UNCHANGED <<users, tokens, response, outside_accounts>>

AccountsInit ==
    /\ parsers = DocumentParserFactory_init
    /\ registered = <<>>
    /\ call = NoCall
    /\ threads = <<>>
    /\ AuthIdle
    /\ LibraryIdle
    /\ response = NoResponse

AccountsNext ==
    \/ \E username \in Usernames, password \in {"pw", "bad"} :
           Login(username, password)
    \/ \E username \in Usernames, confirmPassword \in {"pw", "bad"},
          email \in Emails :
           RegisterAccount(username, "pw", confirmPassword, email)
    \/ \E token \in AllBearers : CurrentUser(token)
    \/ \E token \in AllBearers : PaperAdminRequest(token)
    \/ \E token \in AllBearers : GetUsers(token)
    \/ \E token \in AllBearers, username \in Usernames, email \in Emails,
          role \in Roles :
           CreateUser(token, username, email, role)
    \/ \E token \in AllBearers, username \in Usernames,
          email \in Emails \cup {Absent}, role \in Roles \cup {Absent},
          reset_password \in {"pw", Absent} :
           AdminUpdateUser(token, username, email, role, reset_password)
    \/ \E token \in AllBearers, username \in Usernames, role \in Roles :
           UpdateUserRole(token, username, role)
    \/ \E token \in AllBearers, username \in Usernames :
           DeleteUser(token, username)
    \/ Tick

AccountsSpec == AccountsInit /\ [][AccountsNext]_vars

(***************************************************************************)
(* The web API, libraries (src/web): the libraries table and the two       *)
(* association tables, library_papers (the legacy one) and library_items.  *)
(* A request is one step, for the user get_current_user resolved its       *)
(* token to.  A library row is its id, name, username and is_public;       *)
(* description is stored and read by no handler, and created_at and        *)
(* updated_at order the listings: none of the three is modelled, so a      *)
(* listing is the set of its rows.  The papers and news tables are fixed.  *)
(*  SQLite enforces no foreign key unless PRAGMA          *)
(* foreign_keys is set on the connection, which get_connection does not    *)
(* do: deleting a library row deletes nothing else.                        *)
(***************************************************************************)
\* create_library draws at most MaxLibraries ids
MaxLibraries == 2

\* the accounts that use the libraries
Members == {"alice", "bob"}

LibraryNames == {"reading", "thesis"}

\* the rows of the papers and the news tables
Papers == {"p1"}

News == {"n1"}

\* the ids a request can name: the stored ones and one that is in no table
ItemIds == Papers \cup News \cup {"x9"}

ItemTypes == {"paper", "news", "video"}

\* an Optional[bool] of a request: the empty set is None
OptionalBool == {{}, {TRUE}, {FALSE}}

\* the users table the library requests run against
MemberAccounts ==
    [u \in Members |->
        [email |-> IF u = "alice" THEN "alice@x.org" ELSE "bob@x.org",
         hashed_password |-> get_password_hash("pw"), role |-> USER]]

\* get_library_by_id: the rows with the id (one or none)
get_library_by_id(library_id) == {l \in libraries : l.id = library_id}

\* get_user_library_by_name
get_user_library_by_name(username, name) ==
    {l \in libraries : l.username = username /\ l.name = name}

\* get_user_libraries: WHERE l.username = ?, page 1 of a page that holds
\* every library (MaxLibraries <= DEFAULT_PAGE_SIZE)
get_user_libraries(username) == {l \in libraries : l.username = username}

\* get_public_libraries: WHERE l.is_public = 1
get_public_libraries == {l \in libraries : l.is_public}

is_paper_in_library(table, library_id, paper_id) ==
    <<library_id, paper_id>> \in table

is_item_in_library(table, library_id, item_id, item_type) ==
    <<library_id, item_id, item_type>> \in table

\* LibraryRepository.update_library(library_id, updates): the SET clauses of
\* the keys present (updates is a function on a subset of the field names)
update_library_row(table, library_id, updates) ==
    { IF l.id # library_id THEN l
      ELSE [f \in DOMAIN l |-> IF f \in DOMAIN updates THEN updates[f] ELSE l[f]]
      : l \in table }

\* LibraryRepository.add_paper_to_library: the row is inserted unless there
\* (the touch of updated_at that follows is not modelled)
add_paper_to_library(table, library_id, paper_id) ==
    IF is_paper_in_library(table, library_id, paper_id) THEN table
    ELSE table \cup {<<library_id, paper_id>>}

\* LibraryRepository.remove_paper_from_library
remove_paper_from_library(table, library_id, paper_id) ==
    table \ {<<library_id, paper_id>>}

\* LibraryRepository.add_item_to_library: both tables after the call
add_item_to_library(library_id, item_id, item_type) ==
    IF is_item_in_library(library_items, library_id, item_id, item_type)
    THEN [success |-> FALSE, items |-> library_items, papers |-> library_papers]
    ELSE [success |-> TRUE,
          items |-> library_items \cup {<<library_id, item_id, item_type>>},
          papers |->
              IF /\ item_type = "paper"
                 /\ ~is_paper_in_library(library_papers, library_id, item_id)
              THEN add_paper_to_library(library_papers, library_id, item_id)
              ELSE library_papers]

\* LibraryRepository.remove_item_from_library: both tables after the call
remove_item_from_library(library_id, item_id, item_type) ==
    [success |-> TRUE,
     items |-> library_items \ {<<library_id, item_id, item_type>>},
     papers |->
         IF item_type = "paper"
         THEN remove_paper_from_library(library_papers, library_id, item_id)
         ELSE library_papers]

\* LibraryRepository.get_library_items: the stored papers and news of
\* library_items, or, when there are none, the papers of library_papers
get_library_items(library_id) ==
    LET all_items ==
            {<<i[2], i[3]>> : i \in
                {j \in library_items :
                    /\ j[1] = library_id
                    /\ \/ j[3] = "paper" /\ j[2] \in Papers
                       \/ j[3] = "news" /\ j[2] \in News}}
    IN  IF all_items # {} THEN all_items
        ELSE {<<p[2], "paper">> : p \in
                 {q \in library_papers : q[1] = library_id /\ q[2] \in Papers}}

\* the owner test of the six modifying methods, never failing
not_owner_never(library, username) == FALSE

\* library.username != username
not_owner(library, username) == library.username # username

\* the response of a library request: what was asked by whom, the status,
\* and the library rows and items the body carries
Reply(op, current_user, library_id, out, rows, items) ==
    response' = [op |-> op, user |-> current_user, library_id |-> library_id,
                 status |-> out.status, detail |-> out.detail,
                 libraries |-> rows, items |-> items]

Refuse(op, current_user, library_id, out) ==
    Reply(op, current_user, library_id, out, {}, {})

\* the parts of the state no library request touches
outside_libraries ==
    <<parsers, registered, call, threads, users, tokens, now, requests,
      orphaned>>

\* the row get_library_by_id returned
the(rows) == CHOOSE l \in rows : TRUE

\* POST /libraries: LibraryService.create_library, lines 26-56
CreateLibrary(current_user, name, is_public) ==
    /\ current_user \in DOMAIN users
    /\ uuids < MaxLibraries
    /\ IF get_user_library_by_name(current_user, name) # {}
       THEN /\ UNCHANGED <<libraries, uuids>>
            /\ Refuse("create_library", current_user, 0,
                      HTTPException(400, "library name exists"))
       ELSE LET library == [id |-> uuids + 1, name |-> name,
                            username |-> current_user,
                            is_public |-> is_public]
            IN  /\ libraries' = libraries \cup {library}
                /\ uuids' = uuids + 1
                /\ Reply("create_library", current_user, library.id,
                         Respond("created"), {library}, {})
    /\ UNCHANGED <<library_papers, library_items, outside_libraries>>

\* GET /libraries: get_libraries, controller lines 49-92
GetLibraries(current_user, owner, is_public) ==
    /\ current_user \in DOMAIN users
    /\ Reply("get_libraries", current_user, 0,
             Respond(IF owner # Absent THEN "libraries of owner"
                     ELSE IF is_public = {TRUE} THEN "public libraries"
                     ELSE "own libraries"),
             IF owner # Absent THEN get_user_libraries(owner)
             ELSE IF is_public = {TRUE} THEN get_public_libraries
             ELSE get_user_libraries(current_user),
             {})
    /\ UNCHANGED <<libraries, uuids, library_papers, library_items,
                   outside_libraries>>

\* GET /libraries/{library_id}: LibraryService.get_library_detail, lines
\* 72-131
GetLibraryDetail(current_user, library_id) ==
    /\ current_user \in DOMAIN users
    /\ LET rows == get_library_by_id(library_id)
       IN  IF rows = {}
           THEN Refuse("get_library_detail", current_user, library_id,
                       HTTPException(404, "library not found"))
           ELSE IF ~the(rows).is_public /\ the(rows).username # current_user
           THEN Refuse("get_library_detail", current_user, library_id,
                       HTTPException(403, "no access to this library"))
           ELSE Reply("get_library_detail", current_user, library_id,
                      Respond("detail"), rows, get_library_items(library_id))
    /\ UNCHANGED <<libraries, uuids, library_papers, library_items,
                   outside_libraries>>

\* PUT /libraries/{library_id}: LibraryService.update_library, lines 133-176
UpdateLibrary(current_user, library_id, name, is_public) ==
    /\ current_user \in DOMAIN users
    /\ LET rows == get_library_by_id(library_id)
       IN  IF rows = {}
           THEN /\ libraries' = libraries
                /\ Refuse("update_library", current_user, library_id,
                          HTTPException(404, "library not found"))
           ELSE IF not_owner(the(rows), current_user)
           THEN /\ libraries' = libraries
                /\ Refuse("update_library", current_user, library_id,
                          HTTPException(403, "not your library"))
           ELSE IF /\ name # Absent
                   /\ name # the(rows).name
                   /\ get_user_library_by_name(current_user, name) # {}
           THEN /\ libraries' = libraries
                /\ Refuse("update_library", current_user, library_id,
                          HTTPException(400, "library name exists"))
           ELSE LET given ==
                        {f \in {"name", "is_public"} :
                            \/ f = "name" /\ name # Absent
                            \/ f = "is_public" /\ is_public # {}}
                    updates ==
                        [f \in given |->
                            IF f = "name" THEN name ELSE TRUE \in is_public]
                    updated == update_library_row(libraries, library_id, updates)
                IN  /\ libraries' = updated
                    /\ Reply("update_library", current_user, library_id,
                             Respond("updated"),
                             {l \in updated : l.id = library_id}, {})
    /\ UNCHANGED <<uuids, library_papers, library_items, outside_libraries>>

\* DELETE /libraries/{library_id}: LibraryService.delete_library, lines
\* 178-202
DeleteLibrary(current_user, library_id) ==
    /\ current_user \in DOMAIN users
    /\ LET rows == get_library_by_id(library_id)
       IN  IF rows = {}
           THEN /\ libraries' = libraries
                /\ Refuse("delete_library", current_user, library_id,
                          HTTPException(404, "library not found"))
           ELSE IF not_owner(the(rows), current_user)
           THEN /\ libraries' = libraries
                /\ Refuse("delete_library", current_user, library_id,
                          HTTPException(403, "not your library"))
           ELSE /\ libraries' = libraries \ rows
                /\ Refuse("delete_library", current_user, library_id,
                          Respond("deleted"))
    /\ UNCHANGED <<uuids, library_papers, library_items, outside_libraries>>

\* POST /libraries/{library_id}/papers: LibraryService.add_paper_to_library,
\* lines 204-243
AddPaper(current_user, library_id, paper_id) ==
    /\ current_user \in DOMAIN users
    /\ LET rows == get_library_by_id(library_id)
       IN  IF rows = {}
           THEN /\ library_papers' = library_papers
                /\ Refuse("add_paper_to_library", current_user, library_id,
                          HTTPException(404, "library not found"))
           ELSE IF not_owner(the(rows), current_user)
           THEN /\ library_papers' = library_papers
                /\ Refuse("add_paper_to_library", current_user, library_id,
                          HTTPException(403, "not your library"))
           ELSE IF paper_id \notin Papers
           THEN /\ library_papers' = library_papers
                /\ Refuse("add_paper_to_library", current_user, library_id,
                          HTTPException(404, "paper not found"))
           ELSE IF is_paper_in_library(library_papers, library_id, paper_id)
           THEN /\ library_papers' = library_papers
                /\ Refuse("add_paper_to_library", current_user, library_id,
                          HTTPException(400, "paper already in library"))
           ELSE /\ library_papers' =
                       add_paper_to_library(library_papers, library_id, paper_id)
                /\ Reply("add_paper_to_library", current_user, library_id,
                         Respond("paper added"), {}, {<<paper_id, "paper">>})
    /\ UNCHANGED <<libraries, uuids, library_items, outside_libraries>>

\* DELETE /libraries/{library_id}/papers/{paper_id}:
\* LibraryService.remove_paper_from_library, lines 245-276
RemovePaper(current_user, library_id, paper_id) ==
    /\ current_user \in DOMAIN users
    /\ LET rows == get_library_by_id(library_id)
       IN  IF rows = {}
           THEN /\ library_papers' = library_papers
                /\ Refuse("remove_paper_from_library", current_user,
                          library_id, HTTPException(404, "library not found"))
           ELSE IF not_owner(the(rows), current_user)
           THEN /\ library_papers' = library_papers
                /\ Refuse("remove_paper_from_library", current_user,
                          library_id, HTTPException(403, "not your library"))
           ELSE IF ~is_paper_in_library(library_papers, library_id, paper_id)
           THEN /\ library_papers' = library_papers
                /\ Refuse("remove_paper_from_library", current_user,
                          library_id, HTTPException(404, "paper not in library"))
           ELSE /\ library_papers' =
                       remove_paper_from_library(library_papers, library_id,
                                                 paper_id)
                /\ Reply("remove_paper_from_library", current_user, library_id,
                         Respond("paper removed"), {}, {<<paper_id, "paper">>})
    /\ UNCHANGED <<libraries, uuids, library_items, outside_libraries>>

\* POST /libraries/{library_id}/items: LibraryService.add_item_to_library,
\* lines 290-340
AddItem(current_user, library_id, item_id, item_type) ==
    /\ current_user \in DOMAIN users
    /\ LET rows == get_library_by_id(library_id)
       IN  IF rows = {}
           THEN /\ UNCHANGED <<library_papers, library_items>>
                /\ Refuse("add_item_to_library", current_user, library_id,
                          HTTPException(404, "library not found"))
           ELSE IF not_owner(the(rows), current_user)
           THEN /\ UNCHANGED <<library_papers, library_items>>
                /\ Refuse("add_item_to_library", current_user, library_id,
                          HTTPException(403, "not your library"))
           ELSE IF item_type \notin {"paper", "news"}
           THEN /\ UNCHANGED <<library_papers, library_items>>
                /\ Refuse("add_item_to_library", current_user, library_id,
                          HTTPException(400, "unsupported item type"))
           ELSE IF \/ item_type = "paper" /\ item_id \notin Papers
                   \/ item_type = "news" /\ item_id \notin News
           THEN /\ UNCHANGED <<library_papers, library_items>>
                /\ Refuse("add_item_to_library", current_user, library_id,
                          HTTPException(404, "item not found"))
           ELSE IF is_item_in_library(library_items, library_id, item_id,
                                      item_type)
           THEN /\ UNCHANGED <<library_papers, library_items>>
                /\ Refuse("add_item_to_library", current_user, library_id,
                          HTTPException(400, "item already in library"))
           ELSE LET added == add_item_to_library(library_id, item_id, item_type)
                IN  /\ library_items' = added.items
                    /\ library_papers' = added.papers
                    /\ Reply("add_item_to_library", current_user, library_id,
                             IF added.success THEN Respond("item added")
                             ELSE HTTPException(500, "adding the item failed"),
                             {}, {<<item_id, item_type>>})
    /\ UNCHANGED <<libraries, uuids, outside_libraries>>

\* DELETE /libraries/{library_id}/items/{item_id}/{item_type}:
\* LibraryService.remove_item_from_library, lines 342-375
RemoveItem(current_user, library_id, item_id, item_type) ==
    /\ current_user \in DOMAIN users
    /\ LET rows == get_library_by_id(library_id)
       IN  IF rows = {}
           THEN /\ UNCHANGED <<library_papers, library_items>>
                /\ Refuse("remove_item_from_library", current_user, library_id,
                          HTTPException(404, "library not found"))
           ELSE IF not_owner(the(rows), current_user)
           THEN /\ UNCHANGED <<library_papers, library_items>>
                /\ Refuse("remove_item_from_library", current_user, library_id,
                          HTTPException(403, "not your library"))
           ELSE IF ~is_item_in_library(library_items, library_id, item_id,
                                       item_type)
           THEN /\ UNCHANGED <<library_papers, library_items>>
                /\ Refuse("remove_item_from_library", current_user, library_id,
                          HTTPException(404, "item not in library"))
           ELSE LET removed ==
                        remove_item_from_library(library_id, item_id, item_type)
                IN  /\ library_items' = removed.items
                    /\ library_papers' = removed.papers
                    /\ Reply("remove_item_from_library", current_user,
                             library_id, Respond("item removed"), {},
                             {<<item_id, item_type>>})
    /\ UNCHANGED <<libraries, uuids, outside_libraries>>

LibraryIds == 1..MaxLibraries

LibraryInit ==
    /\ parsers = DocumentParserFactory_init
    /\ registered = <<>>
    /\ call = NoCall
    /\ threads = <<>>
    /\ users = MemberAccounts
    /\ tokens = {}
    /\ now = 0
    /\ orphaned = {}
    /\ LibraryIdle
    /\ response = NoResponse

LibraryNext ==
    \/ \E current_user \in Members, name \in LibraryNames,
          is_public \in BOOLEAN :
           CreateLibrary(current_user, name, is_public)
    \/ \E current_user \in Members, owner \in Members \cup {Absent},
          is_public \in OptionalBool :
           GetLibraries(current_user, owner, is_public)
    \/ \E current_user \in Members, library_id \in LibraryIds :
           GetLibraryDetail(current_user, library_id)
    \/ \E current_user \in Members, library_id \in LibraryIds,
          name \in LibraryNames \cup {Absent}, is_public \in OptionalBool :
           UpdateLibrary(current_user, library_id, name, is_public)
    \/ \E current_user \in Members, library_id \in LibraryIds :
           DeleteLibrary(current_user, library_id)
    \/ \E current_user \in Members, library_id \in LibraryIds,
          paper_id \in Papers \cup {"x9"} :
           AddPaper(current_user, library_id, paper_id)
    \/ \E current_user \in Members, library_id \in LibraryIds,
          paper_id \in Papers \cup {"x9"} :
           RemovePaper(current_user, library_id, paper_id)
    \/ \E current_user \in Members, library_id \in LibraryIds,
          item_id \in ItemIds, item_type \in ItemTypes :
           AddItem(current_user, library_id, item_id, item_type)
    \/ \E current_user \in Members, library_id \in LibraryIds,
          item_id \in ItemIds, item_type \in ItemTypes :
           RemoveItem(current_user, library_id, item_id, item_type)

LibrarySpec == LibraryInit /\ [][LibraryNext]_vars

(***************************************************************************)
(* The claims about the web API.                                           *)
(***************************************************************************)
\* the library rows a successful read handed to the user who asked
Shown ==
    IF /\ response.op \in {"get_libraries", "get_library_detail"}
       /\ response.status = 200
    THEN response.libraries ELSE {}

\* C23: a library that is not public is never returned to a user other than
\* its owner, neither by get_library_detail nor by any listing of
\* get_libraries (owner filter, public filter or default), in any state
\* create_library and update_library requests reach.
C23_PrivateNeverShown ==
    response.op \in {"get_libraries", "get_library_detail"} =>
        \A l \in Shown : l.is_public \/ l.username = response.user

\* what holds of every read but the listing by owner
PrivateShownOnlyByOwnerFilter ==
    ( /\ response.op \in {"get_libraries", "get_library_detail"}
      /\ response.detail # "libraries of owner" ) =>
        \A l \in Shown : l.is_public \/ l.username = response.user

\* bob lists alice's libraries and is handed her private one
PrivateShownToOther ==
    /\ response.op = "get_libraries"
    /\ response.user = "bob"
    /\ \E l \in Shown : l.username = "alice" /\ ~l.is_public

\* the request just answered was made by a super admin about their own
\* account: the super-admin dependency resolved its token to its target
OwnAccountTargeted(ops) ==
    /\ response'.op \in ops
    /\ LET current_admin == get_current_super_admin_user(response'.token)
       IN  /\ current_admin.status = 200
           /\ current_admin.detail = response'.target

\* the target's account is still there with the role it had
TargetKept ==
    /\ response'.target \in DOMAIN users'
    /\ users'[response'.target].role = users[response'.target].role

\* C24: no admin operation lets a super admin change their own role or
\* delete their own account: update_user_role, admin_update_user and
\* delete_user, called by a super admin with their own username as target,
\* leave that admin's role and account unchanged.
C24_NoSelfChange ==
    [][ OwnAccountTargeted({"update_user_role", "admin_update_user",
                            "delete_user"}) => TargetKept ]_vars

\* what holds of the two methods that are handed current_admin
NoSelfChangeByRoleOrDelete ==
    [][ OwnAccountTargeted({"update_user_role", "delete_user"}) =>
            /\ TargetKept
            /\ response'.status = 400 ]_vars

\* root has edited their own account and is a super admin no more
SelfDemoted ==
    /\ response.op = "admin_update_user"
    /\ response.token.sub = "root"
    /\ response.target = "root"
    /\ response.status = 200
    /\ "root" \in DOMAIN users
    /\ users["root"].role = USER

\* the last request carried token and passed a dependency that resolves
\* the bearer to a user
Authenticated(token) ==
    /\ response.op \in {"current_user", "paper_admin", "super_admin",
                        "create_user", "admin_update_user",
                        "update_user_role", "delete_user"}
    /\ response.token = token
    /\ response.status # 401

\* C25: a token issued to an account that is later deleted never
\* authenticates again: every later request carrying that token is answered
\* 401, also after a new account has been registered under the same
\* username.
C25_DeletedAccountTokenDead ==
    \A token \in orphaned : ~Authenticated(token)

\* what holds while the username stays unregistered
DeletedAccountTokenDeadUntilReregistered ==
    \A token \in AllBearers :
        (token \in Issued /\ token.sub \notin DOMAIN users) =>
            ~Authenticated(token)

\* alice's token from before her account was deleted is accepted for the
\* account registered under her name afterwards
OldTokenNewAccount ==
    /\ response.op = "current_user"
    /\ response.token \in orphaned
    /\ response.token.sub = "alice"
    /\ response.status = 200

\* the requests behind get_current_super_admin_user
SuperAdminOps ==
    {"super_admin", "create_user", "admin_update_user", "update_user_role",
     "delete_user"}

\* token is one SECRET_KEY signed, not expired, of a user with a row
KnownUser(token) ==
    /\ token.signed
    /\ token.exp >= now
    /\ token.sub \in DOMAIN users

\* the answer of a dependency that admits the roles allowed, for the token
\* and the users table the request met
AnsweredByStoredRole(allowed) ==
    LET token == response'.token
    IN  /\ response'.status = 401 <=> ~KnownUser(token)
        /\ response'.status = 403 <=>
               KnownUser(token) /\ users[token.sub].role \notin allowed

\* C26: admin authorization follows the role stored for the token's user
\* at the time of the request, not the time of login: a request behind the
\* super-admin dependency succeeds only if that user exists and is
\* super_admin, one behind the paper-admin dependency only if the role is
\* super_admin or paper_admin, and after a user's role is lowered a token
\* issued earlier is refused with 403 on the next admin request.
C26_AdminByStoredRole ==
    [][ now' = now =>
          /\ response'.op \in SuperAdminOps =>
                 AnsweredByStoredRole({SUPER_ADMIN})
          /\ response'.op = "paper_admin" =>
                 AnsweredByStoredRole({SUPER_ADMIN, PAPER_ADMIN}) ]_vars

\* C26's case: a token that login issued to a super admin is refused with
\* 403 behind the super-admin dependency, the role having been lowered to
\* paper_admin since, and the same user still passes the paper-admin one.
C26_Witness ==
    /\ response.op = "super_admin"
    /\ response.status = 403
    /\ AuthResponse(response.token, SUPER_ADMIN) \in tokens
    /\ users[response.token.sub].role = PAPER_ADMIN
    /\ get_current_paper_admin_user(response.token).status = 200

\* the six requests that modify a library or what it holds
ModifyingOps ==
    {"update_library", "delete_library", "add_paper_to_library",
     "remove_paper_from_library", "add_item_to_library",
     "remove_item_from_library"}

\* C27: update_library, delete_library, add_paper_to_library,
\* remove_paper_from_library, add_item_to_library and
\* remove_item_from_library requested by a user who is not the library's
\* owner are rejected with 403 and leave the library row and both
\* association tables unchanged; a request for a library id that does not
\* exist is rejected with 404.
C27_OnlyOwnerModifies ==
    [][ response'.op \in ModifyingOps =>
          LET rows == get_library_by_id(response'.library_id)
          IN  /\ rows = {} => response'.status = 404
              /\ (rows # {} /\ the(rows).username # response'.user) =>
                     /\ response'.status = 403
                     /\ libraries' = libraries
                     /\ library_papers' = library_papers
                     /\ library_items' = library_items ]_vars

\* C27's case: bob asks to remove the paper alice's library 1 holds in
\* both tables, is refused with 403, and the rows are all there.
C27_Witness ==
    /\ response.op = "remove_item_from_library"
    /\ response.user = "bob"
    /\ response.library_id = 1
    /\ response.status = 403
    /\ \E l \in libraries : l.id = 1 /\ l.username = "alice"
    /\ <<1, "p1">> \in library_papers
    /\ <<1, "p1", "paper">> \in library_items

\* C28: update_user_role and delete_user called for a username that does
\* not exist fail with 404 'user not found' and change nothing; they report
\* success only when a user row was actually updated or deleted.
C28_MissingUserIs404 ==
    [][ ( /\ now' = now
          /\ response'.op \in {"update_user_role", "delete_user"}
          /\ response'.status \notin {401, 403} ) =>
            /\ response'.target \notin DOMAIN users =>
                   /\ response'.status = 404
                   /\ response'.detail = "user not found"
                   /\ users' = users
            /\ response'.status = 200 => response'.target \in DOMAIN users
      ]_vars

\* what holds of the two requests for a username without a row
MissingUserChangesNothing ==
    [][ ( /\ response'.op \in {"update_user_role", "delete_user"}
          /\ response'.target \notin DOMAIN users ) => users' = users ]_vars

\* the role of an account that does not exist was reported updated
MissingUserReportedUpdated ==
    /\ response.op = "update_user_role"
    /\ response.target = "alice"
    /\ response.status = 200
    /\ users = SeededUsers

(***************************************************************************)
(* Interleaved library requests.  The handlers are coroutines on one event *)
(* loop: a request runs alone from one await to the next and another       *)
(* request may run at every await.  Each await of create_library and        *)
(* update_library is one statement on its own database connection, so a    *)
(* step here is one statement together with the handler's code up to its   *)
(* next await.  Requests requests of the one user alice are in flight.     *)
(***************************************************************************)
\* the requests in flight
Requests == 3

RequestIds == 1..Requests

\* a create_library request about to run
CreateRequest(name) ==
    [op |-> "create_library", pc |-> "call", user |-> "alice", name |-> name,
     library_id |-> 0, status |-> 0]

\* an update_library request about to run, renaming library_id to name
UpdateRequest(library_id, name) ==
    [op |-> "update_library", pc |-> "call", user |-> "alice", name |-> name,
     library_id |-> library_id, status |-> 0]

\* the request has answered
Done(r, status_code) ==
    requests' = [requests EXCEPT ![r].pc = "done", ![r].status = status_code]

Goto(r, pc) == requests' = [requests EXCEPT ![r].pc = pc]

\* the parts of the state no step of these requests touches
outside_race ==
    <<parsers, registered, call, threads, users, tokens, now, library_papers,
      library_items, response, orphaned>>

\* create_library line 29, the name check, and lines 30-34
CreateCheck(r) ==
    /\ requests[r].op = "create_library"
    /\ requests[r].pc = "call"
    /\ IF get_user_library_by_name(requests[r].user, requests[r].name) # {}
       THEN Done(r, 400)
       ELSE Goto(r, "write")
    /\ UNCHANGED <<libraries, uuids, outside_race>>

\* create_library lines 37-56: the row is built and inserted.  The table
\* has no UNIQUE (username, name) (database.py lines 70-81), so the insert
\* fails for no name.
CreateWrite(r) ==
    /\ requests[r].op = "create_library"
    /\ requests[r].pc = "write"
    /\ uuids < MaxLibraries
    /\ libraries' = libraries \cup
           {[id |-> uuids + 1, name |-> requests[r].name,
             username |-> requests[r].user, is_public |-> FALSE]}
    /\ uuids' = uuids + 1
    /\ requests' = [requests EXCEPT ![r].pc = "done", ![r].status = 200,
                                    ![r].library_id = uuids + 1]
    /\ UNCHANGED outside_race

\* update_library line 135, the read by id, and lines 136-150
UpdateLoad(r) ==
    /\ requests[r].op = "update_library"
    /\ requests[r].pc = "call"
    /\ LET rows == get_library_by_id(requests[r].library_id)
       IN  IF rows = {} THEN Done(r, 404)
           ELSE IF not_owner(the(rows), requests[r].user) THEN Done(r, 403)
           ELSE IF requests[r].name # the(rows).name THEN Goto(r, "check")
           ELSE Goto(r, "write")
    /\ UNCHANGED <<libraries, uuids, outside_race>>

\* update_library line 151, the name check, and lines 152-165
UpdateCheck(r) ==
    /\ requests[r].op = "update_library"
    /\ requests[r].pc = "check"
    /\ IF get_user_library_by_name(requests[r].user, requests[r].name) # {}
       THEN Done(r, 400)
       ELSE Goto(r, "write")
    /\ UNCHANGED <<libraries, uuids, outside_race>>

\* update_library line 168, the UPDATE, and lines 169-173
UpdateWrite(r) ==
    /\ requests[r].op = "update_library"
    /\ requests[r].pc = "write"
    /\ libraries' = update_library_row(libraries, requests[r].library_id,
                                       [f \in {"name"} |-> requests[r].name])
    /\ Goto(r, "return")
    /\ UNCHANGED <<uuids, outside_race>>

\* update_library line 176: the row is read again and returned
UpdateReturn(r) ==
    /\ requests[r].op = "update_library"
    /\ requests[r].pc = "return"
    /\ Done(r, 200)
    /\ UNCHANGED <<libraries, uuids, outside_race>>

LibraryRaceInit ==
    /\ parsers = DocumentParserFactory_init
    /\ registered = <<>>
    /\ call = NoCall
    /\ threads = <<>>
    /\ users = MemberAccounts
    /\ tokens = {}
    /\ now = 0
    /\ orphaned = {}
    /\ libraries = {}
    /\ library_papers = {}
    /\ library_items = {}
    /\ uuids = 0
    /\ requests \in
           [RequestIds ->
               {CreateRequest(name) : name \in LibraryNames} \cup
               {UpdateRequest(id, name) :
                   id \in LibraryIds, name \in LibraryNames}]
    /\ response = NoResponse

LibraryRaceNext ==
    \/ \E r \in RequestIds : CreateCheck(r)
    \/ \E r \in RequestIds : CreateWrite(r)
    \/ \E r \in RequestIds : UpdateLoad(r)
    \/ \E r \in RequestIds : UpdateCheck(r)
    \/ \E r \in RequestIds : UpdateWrite(r)
    \/ \E r \in RequestIds : UpdateReturn(r)

LibraryRaceSpec == LibraryRaceInit /\ [][LibraryRaceNext]_vars

\* C29: a user never owns two libraries with the same name: this holds
\* after any sequence of create_library and update_library requests, also
\* when two requests of the same user interleave between the name check
\* and the write.
C29_NamesUniquePerUser ==
    \A l1 \in libraries, l2 \in libraries :
        (l1.id # l2.id /\ l1.username = l2.username) => l1.name # l2.name

\* two create_library requests for one name have both answered 200 and
\* alice owns two libraries called reading
TwoLibrariesOneName ==
    /\ \E r1 \in RequestIds, r2 \in RequestIds :
           /\ r1 # r2
           /\ requests[r1].op = "create_library"
           /\ requests[r2].op = "create_library"
           /\ requests[r1].pc = "done" /\ requests[r1].status = 200
           /\ requests[r2].pc = "done" /\ requests[r2].status = 200
    /\ \E l1 \in libraries, l2 \in libraries :
           /\ l1.id # l2.id
           /\ l1.username = "alice" /\ l2.username = "alice"
           /\ l1.name = "reading" /\ l2.name = "reading"

\* paper_id is in library_id by both tables, or by neither
SameInBoth(papers, items, library_id, paper_id) ==
    <<library_id, paper_id>> \in papers <=>
        <<library_id, paper_id, "paper">> \in items

\* C30: paper membership is the same in both association tables: after any
\* sequence of successful add_item_to_library / remove_item_from_library
\* requests and legacy add_paper_to_library / remove_paper_from_library
\* requests on a library, a paper is in library_papers exactly when it is
\* in library_items with item_type paper.
C30_TablesAgreeOnPapers ==
    \A library_id \in LibraryIds, paper_id \in Papers :
        SameInBoth(library_papers, library_items, library_id, paper_id)

\* what holds of the requests of the generic endpoints: they leave a paper
\* they find in both tables or in neither that way
ItemRequestsKeepAgreement ==
    [][ response'.op \in {"add_item_to_library", "remove_item_from_library"} =>
          \A library_id \in LibraryIds, paper_id \in Papers :
              SameInBoth(library_papers, library_items, library_id, paper_id)
                  => SameInBoth(library_papers', library_items', library_id,
                                paper_id) ]_vars

\* the legacy endpoint has added p1 to library 1: it is in library_papers
\* and not in library_items
PaperOnlyInLegacyTable ==
    /\ response.op = "add_paper_to_library"
    /\ response.status = 200
    /\ <<1, "p1">> \in library_papers
    /\ <<1, "p1", "paper">> \notin library_items

=============================================================================
